---- MODULE Spec2Model ----
(***************************************************************************)
(* Model of odoo_setup_assistant: the log analyzer (checkers/log_analyzer), *)
(* the addon requirements checker (checkers/addon_requirements_checker),   *)
(* the wizard's scan, install and log actions (models/..._wizard) and the  *)
(* clone-or-pull action of a repository record (models/github_repo).       *)
(***************************************************************************)
EXTENDS Integers, Sequences, FiniteSets, TLC

\* ------------------------------------------------------------------ bounds
MaxLen == 4          \* longest log file, in bytes
MaxN == 2            \* largest requested line count
MaxChunk == 3        \* largest read-chunk size (the code's 4096, scaled down)
MaxLines == 3        \* longest log, in lines, given to the filter
MaxDiagLines == 3    \* longest list of lines given to diagnose_logs
MaxClauses == 2      \* most comparators in a generated requirement string
MaxRoots == 2        \* most roots in addons_path
MaxSpecs == 2        \* most specs in a list given to the install action

\* ------------------------------------------------------------ file content
\* A file is a sequence of bytes.  "LF" and "CR" are the line terminators,
\* "C3" "A9" is the two-byte UTF-8 encoding of one character ("e'"), and every
\* other byte is a one-byte character that decodes to itself.
TailBytes == {"a", "LF", "CR", "C3", "A9"}

RECURSIVE Decode(_)
\* bytes.decode('utf-8', errors='replace'): an incomplete or stray byte of a
\* multi-byte sequence becomes the replacement character
Decode(bs) ==
    IF bs = <<>> THEN <<>>
    ELSE IF Head(bs) = "C3"
         THEN IF Len(bs) >= 2 /\ bs[2] = "A9"
              THEN <<"e'">> \o Decode(SubSeq(bs, 3, Len(bs)))
              ELSE <<"REPL">> \o Decode(Tail(bs))
    ELSE IF Head(bs) = "A9" THEN <<"REPL">> \o Decode(Tail(bs))
    ELSE <<Head(bs)>> \o Decode(Tail(bs))

RECURSIVE SplitAcc(_, _, _)
\* str.splitlines(): LF, CR and CR LF end a line; no empty last line
SplitAcc(cs, cur, acc) ==
    IF cs = <<>> THEN (IF cur = <<>> THEN acc ELSE Append(acc, cur))
    ELSE IF Head(cs) = "LF" THEN SplitAcc(Tail(cs), <<>>, Append(acc, cur))
    ELSE IF Head(cs) = "CR"
         THEN IF Len(cs) >= 2 /\ cs[2] = "LF"
              THEN SplitAcc(SubSeq(cs, 3, Len(cs)), <<>>, Append(acc, cur))
              ELSE SplitAcc(Tail(cs), <<>>, Append(acc, cur))
    ELSE SplitAcc(Tail(cs), Append(cur, Head(cs)), acc)

splitlines(cs) == SplitAcc(cs, <<>>, <<>>)

\* lst[-n:] of Python for n >= 0: the last n elements, and the whole list
\* when n = 0 (-0 is 0) or n >= len(lst)
LastN(lst, n) ==
    IF n = 0 \/ n >= Len(lst) THEN lst
    ELSE SubSeq(lst, Len(lst) - n + 1, Len(lst))

Min(a, b) == IF a <= b THEN a ELSE b

\* --------------------------------------------------------------- the state
VARIABLES
    configured,       \* LogAnalyzer.log_file_path is set (odoo.conf 'logfile')
    fstate,           \* the file at that path: absent, unreadable, ioerror, ok
    file,             \* its content, a sequence of bytes
    buffer_size,      \* read-chunk size of _efficient_tail
    num_lines,        \* argument num_lines / n_lines
    level_filter,     \* argument level_filter
    keyword_filter,   \* argument keyword_filter
    pc,               \* position of the running call
    lines_found,      \* _efficient_tail: lines assembled so far
    bytes_read_total, \* _efficient_tail: bytes read so far, from the end
    tail_exc,         \* exception raised by _efficient_tail, or "none"
    raw_lines,        \* what _efficient_tail returned
    ret_lines,        \* get_filtered_log_lines: first component of the result
    status,           \* get_filtered_log_lines: second component of the result
    escaped,          \* exception that left get_filtered_log_lines, or "none"
    log_lines,        \* diagnose_logs: argument
    line_idx,         \* diagnose_logs: index of the line being examined
    hints,            \* diagnose_logs: hints emitted so far
    unique_hints,     \* diagnose_logs: hint texts seen so far
    packaging_available, \* PACKAGING_LIB_AVAILABLE
    stdlib_metadata,  \* "import importlib.metadata as importlib_metadata" worked
    backport_loaded,  \* 'importlib_metadata' in sys.modules
    registry,         \* installed distributions: canonical name -> state
    package_spec,     \* _check_package_installed: argument, a string
    spec_parts,       \* the name and comparators package_spec was written from
    check_result,     \* _check_package_installed: the triple returned
    addons_paths,     \* AddonRequirementsChecker.addons_paths: the roots on disk
    root_idx,         \* find_requirements: index of the root being scanned
    module_requirements, \* find_requirements: the dict, in insertion order
    messages,         \* diagnostics logged through _add_message
    mod_idx,          \* analyze_dependencies: index of the module examined
    pkg_idx,          \* analyze_dependencies: index of its requirement examined
    to_install,       \* analyze_dependencies: the list 'to_install'
    satisfied,        \* analyze_dependencies: the list 'satisfied'
    errors,           \* analyze_dependencies: the list 'errors'
    self,             \* the wizard record a scan action runs on
    addon_req_status, \* wizard field, per wizard record
    packages_to_install_list, \* wizard field, per wizard record
    ipc,              \* install action of a record: its position
    packages_specs,   \* install action: the specs given to install_packages
    spec_idx,         \* install_packages: index of the spec being installed
    processes,        \* install_packages: the processes started, in order
    success,          \* install_packages: the list 'success'
    failed,           \* install_packages: the dict 'failed', in insertion order
    base_git_dir,     \* ir.config_parameter setup.assist.base_git_dir is set
    parent_dir,       \* the parent directory of the target path
    target_path,      \* what is at the target path
    git_env,          \* whether git is installed, the remote answers, reset works
    underscore,       \* action_clone_or_pull: the binding of its local name _
    git_commands,     \* the git commands run, in order
    last_git_status,  \* repository field
    last_git_log,     \* repository field
    is_git_repo,      \* action_clone_or_pull: its local is_git_repo
    git_return,       \* action_clone_or_pull: the pair it returned
    git_exc,          \* action_clone_or_pull: the exception that left it
    entry,            \* the wizard action that called analyze_dependencies
    log_lines_to_fetch,   \* wizard field
    log_level_filter,     \* wizard field
    log_keyword_filter,   \* wizard field
    log_display_content,  \* wizard field
    log_diagnostic_hints, \* wizard field
    log_analysis_status   \* wizard field

logVars == <<configured, fstate, file, buffer_size, num_lines, level_filter,
             keyword_filter, lines_found, bytes_read_total, tail_exc,
             raw_lines, ret_lines, status, escaped>>
diagVars == <<log_lines, line_idx, hints, unique_hints>>
reqVars == <<packaging_available, stdlib_metadata, backport_loaded, registry,
             package_spec, spec_parts, check_result>>
scanVars == <<addons_paths, root_idx, module_requirements, messages, mod_idx,
              pkg_idx, to_install, satisfied, errors, self>>
wizVars == <<addon_req_status, packages_to_install_list>>
instVars == <<ipc, packages_specs, spec_idx, processes, success, failed>>
gitVars == <<base_git_dir, parent_dir, target_path, git_env, underscore,
             git_commands, last_git_status, last_git_log, is_git_repo,
             git_return, git_exc>>
callVars == <<entry>>
wlogVars == <<log_lines_to_fetch, log_level_filter, log_keyword_filter,
              log_display_content, log_diagnostic_hints, log_analysis_status>>
vars == <<pc, logVars, diagVars, reqVars, scanVars, wizVars, instVars, gitVars,
          callVars, wlogVars>>

NoneLevel == "<None>"          \* level_filter=None
NoneKeyword == <<"<None>">>    \* keyword_filter=None
NoStatus == "<unset>"

\* ------------------------------------------------- LogAnalyzer._efficient_tail
end_byte == Len(file)

\* the chunk read by f.seek(end_byte - total); f.read(offset)
Chunk(total, offset) == SubSeq(file, end_byte - total + 1, end_byte - total + offset)

\* lines 96-100: the chunk's last line is glued to the first line found so
\* far, whatever the chunk ends with, and the rest is put in front
Stitch(current_lines, found) ==
    IF found # <<>> /\ current_lines # <<>>
    THEN SubSeq(current_lines, 1, Len(current_lines) - 1)
         \o <<current_lines[Len(current_lines)] \o found[1]>>
         \o Tail(found)
    ELSE current_lines \o found

\* TailContinues without the test on the number of lines found
TailContinuesToStart(found, total, n) == total < end_byte

\* line 81: the loop condition
TailContinues(found, total, n) == Len(found) < n + 1 /\ total < end_byte

\* lines 64-79: the checks, open, seek to the end, the empty file
EfficientTailEnter ==
    /\ pc = "tail_enter"
    /\ IF ~configured \/ fstate = "absent"
       THEN /\ tail_exc' = "FileNotFoundError"
            /\ pc' = "tail_raised"
            /\ UNCHANGED <<lines_found, bytes_read_total, raw_lines>>
       ELSE IF fstate = "unreadable"
       THEN /\ tail_exc' = "PermissionError"
            /\ pc' = "tail_raised"
            /\ UNCHANGED <<lines_found, bytes_read_total, raw_lines>>
       ELSE IF fstate = "ioerror"
       THEN /\ tail_exc' = "OSError"
            /\ pc' = "tail_raised"
            /\ UNCHANGED <<lines_found, bytes_read_total, raw_lines>>
       ELSE IF end_byte = 0
       THEN /\ raw_lines' = <<>>
            /\ pc' = "tail_returned"
            /\ UNCHANGED <<lines_found, bytes_read_total, tail_exc>>
       ELSE /\ lines_found' = <<>>
            /\ bytes_read_total' = 0
            /\ pc' = "tail_loop"
            /\ UNCHANGED <<tail_exc, raw_lines>>
    /\ UNCHANGED <<configured, fstate, file, buffer_size, num_lines,
                   level_filter, keyword_filter, ret_lines, status, escaped>>
    /\ UNCHANGED diagVars
    /\ UNCHANGED reqVars
    /\ UNCHANGED scanVars
    /\ UNCHANGED wizVars
    /\ UNCHANGED instVars
    /\ UNCHANGED gitVars
    /\ UNCHANGED callVars
    /\ UNCHANGED wlogVars

\* lines 81-100: one iteration of the backward-read loop
EfficientTailLoop ==
    /\ pc = "tail_loop"
    /\ TailContinues(lines_found, bytes_read_total, num_lines)
    /\ LET offset == Min(buffer_size, end_byte - bytes_read_total)
           total == bytes_read_total + offset
           current_lines == splitlines(Decode(Chunk(total, offset)))
       IN /\ bytes_read_total' = total
          /\ lines_found' = Stitch(current_lines, lines_found)
    /\ UNCHANGED <<pc, configured, fstate, file, buffer_size, num_lines,
                   level_filter, keyword_filter, tail_exc, raw_lines,
                   ret_lines, status, escaped>>
    /\ UNCHANGED diagVars
    /\ UNCHANGED reqVars
    /\ UNCHANGED scanVars
    /\ UNCHANGED wizVars
    /\ UNCHANGED instVars
    /\ UNCHANGED gitVars
    /\ UNCHANGED callVars
    /\ UNCHANGED wlogVars

\* line 102: return lines_found[-n_lines:]
EfficientTailReturn ==
    /\ pc = "tail_loop"
    /\ ~TailContinues(lines_found, bytes_read_total, num_lines)
    /\ raw_lines' = LastN(lines_found, num_lines)
    /\ pc' = "tail_returned"
    /\ UNCHANGED <<configured, fstate, file, buffer_size, num_lines,
                   level_filter, keyword_filter, lines_found,
                   bytes_read_total, tail_exc, ret_lines, status, escaped>>
    /\ UNCHANGED diagVars
    /\ UNCHANGED reqVars
    /\ UNCHANGED scanVars
    /\ UNCHANGED wizVars
    /\ UNCHANGED instVars
    /\ UNCHANGED gitVars
    /\ UNCHANGED callVars
    /\ UNCHANGED wlogVars

\* ------------------------------------------ LogAnalyzer.get_filtered_log_lines
\* A line is a sequence of characters.  A header character "H_<LEVEL>" stands
\* for the prefix "<timestamp> <pid> <LEVEL> <db> <module>: " of a line in
\* Odoo's log format; "k" and "K" are a keyword in lower and in upper case.
HeaderChars == {"H_INFO", "H_WARNING", "H_ERROR", "H_CRITICAL", "H_DEBUG", "H_TEST"}

\* LOG_LINE_REGEX.match(line): the line starts with a well-formed header
RegexMatches(line) == line # <<>> /\ line[1] \in HeaderChars

\* match.group('level')
GroupLevel(line) ==
    CASE line[1] = "H_INFO" -> "INFO"
      [] line[1] = "H_WARNING" -> "WARNING"
      [] line[1] = "H_ERROR" -> "ERROR"
      [] line[1] = "H_CRITICAL" -> "CRITICAL"
      [] line[1] = "H_DEBUG" -> "DEBUG"
      [] line[1] = "H_TEST" -> "TEST"

\* str.lower(), character by character
LowerChar(c) == IF c = "K" THEN "k" ELSE c
Lower(line) == [i \in 1..Len(line) |-> LowerChar(line[i])]

\* needle in haystack
Contains(haystack, needle) ==
    \E i \in 0..(Len(haystack) - Len(needle)) :
        SubSeq(haystack, i + 1, i + Len(needle)) = needle

\* lines 131-133: the keyword test; None and "" are falsy and test nothing
KeywordPasses(line, kw) ==
    IF kw = NoneKeyword \/ kw = <<>> THEN TRUE
    ELSE Contains(Lower(line), Lower(kw))

\* FilterLine without the test level_filter != 'ALL'
FilterLineNoAllTest(line, lvl, kw) ==
    IF ~KeywordPasses(line, kw) THEN "drop"
    ELSE IF RegexMatches(line)
         THEN IF lvl = NoneLevel THEN "raise"
              ELSE IF GroupLevel(line) # lvl THEN "drop" ELSE "pass"
    ELSE IF lvl \notin {"INFO", "DEBUG"} THEN "drop" ELSE "pass"

\* FilterLine without the else branch for lines that do not match the grammar
FilterLineKeepsUnparsed(line, lvl, kw) ==
    IF ~KeywordPasses(line, kw) THEN "drop"
    ELSE IF lvl = "ALL" THEN "pass"
    ELSE IF RegexMatches(line)
         THEN IF lvl = NoneLevel THEN "raise"
              ELSE IF GroupLevel(line) # lvl THEN "drop" ELSE "pass"
    ELSE "pass"

\* lines 128-147, for one line: "pass", "drop", or "raise" when
\* level_filter.upper() is evaluated on None
FilterLine(line, lvl, kw) ==
    IF ~KeywordPasses(line, kw) THEN "drop"
    ELSE IF lvl = "ALL" THEN "pass"
    ELSE IF RegexMatches(line)
         THEN IF lvl = NoneLevel THEN "raise"
              ELSE IF GroupLevel(line) # lvl THEN "drop" ELSE "pass"
    ELSE IF lvl \notin {"INFO", "DEBUG"} THEN "drop" ELSE "pass"

RECURSIVE SelectPassing(_, _, _)
\* the lines of a list that pass, in order
SelectPassing(lines, lvl, kw) ==
    IF lines = <<>> THEN <<>>
    ELSE IF FilterLine(Head(lines), lvl, kw) = "pass"
         THEN <<Head(lines)>> \o SelectPassing(Tail(lines), lvl, kw)
         ELSE SelectPassing(Tail(lines), lvl, kw)

FilterRaises(lines, lvl, kw) ==
    \E i \in 1..Len(lines) : FilterLine(lines[i], lvl, kw) = "raise"

MsgNotConfigured == <<"Odoo log file path ('logfile') is not configured in odoo.conf.">>
MsgNotFound == <<"Log file not found.">>
MsgPermission == <<"Permission denied when trying to read log file.">>
MsgReadError == <<"An error occurred while reading the log file">>
MsgEmpty == <<"Log file is empty or no lines fetched.">>
MsgNoMatch == <<"No log entries found matching the current filter criteria.">>

\* lines 111-115: the unconfigured path, else the call of _efficient_tail
GetFilteredLogLinesEnter ==
    /\ pc = "idle"
    /\ IF ~configured
       THEN /\ ret_lines' = <<MsgNotConfigured>>
            /\ status' = "no_log_file"
            /\ pc' = "returned"
       ELSE /\ pc' = "tail_enter"
            /\ UNCHANGED <<ret_lines, status>>
    /\ UNCHANGED <<configured, fstate, file, buffer_size, num_lines,
                   level_filter, keyword_filter, lines_found,
                   bytes_read_total, tail_exc, raw_lines, escaped>>
    /\ UNCHANGED diagVars
    /\ UNCHANGED reqVars
    /\ UNCHANGED scanVars
    /\ UNCHANGED wizVars
    /\ UNCHANGED instVars
    /\ UNCHANGED gitVars
    /\ UNCHANGED callVars
    /\ UNCHANGED wlogVars

\* StatusOfException with every failure reported as a read error
StatusAlwaysReadError(exc) == "error_reading"

\* the status each exception of _efficient_tail is turned into
StatusOfException(exc) ==
    IF exc = "FileNotFoundError" THEN "no_log_file" ELSE "error_reading"

\* lines 116-121: the except clauses
GetFilteredLogLinesExcept ==
    /\ pc = "tail_raised"
    /\ ret_lines' = IF tail_exc = "FileNotFoundError" THEN <<MsgNotFound>>
                    ELSE IF tail_exc = "PermissionError" THEN <<MsgPermission>>
                    ELSE <<MsgReadError \o <<tail_exc>> >>
    /\ status' = StatusOfException(tail_exc)
    /\ pc' = "returned"
    /\ UNCHANGED <<configured, fstate, file, buffer_size, num_lines,
                   level_filter, keyword_filter, lines_found,
                   bytes_read_total, tail_exc, raw_lines, escaped>>
    /\ UNCHANGED diagVars
    /\ UNCHANGED reqVars
    /\ UNCHANGED scanVars
    /\ UNCHANGED wizVars
    /\ UNCHANGED instVars
    /\ UNCHANGED gitVars
    /\ UNCHANGED callVars
    /\ UNCHANGED wlogVars

\* lines 123-152: the empty result, the filter loop and the two returns
GetFilteredLogLinesFilter ==
    /\ pc = "tail_returned"
    /\ IF raw_lines = <<>>
       THEN /\ ret_lines' = <<MsgEmpty>>
            /\ status' = "success"
            /\ pc' = "returned"
            /\ UNCHANGED escaped
       ELSE IF FilterRaises(raw_lines, level_filter, keyword_filter)
       THEN /\ escaped' = "AttributeError"
            /\ pc' = "raised"
            /\ UNCHANGED <<ret_lines, status>>
       ELSE LET filtered_lines == SelectPassing(raw_lines, level_filter, keyword_filter)
            IN /\ IF filtered_lines = <<>>
                  THEN /\ ret_lines' = <<MsgNoMatch>>
                       /\ status' = "empty_after_filter"
                  ELSE /\ ret_lines' = filtered_lines
                       /\ status' = "success"
               /\ pc' = "returned"
               /\ UNCHANGED escaped
    /\ UNCHANGED <<configured, fstate, file, buffer_size, num_lines,
                   level_filter, keyword_filter, lines_found,
                   bytes_read_total, tail_exc, raw_lines>>
    /\ UNCHANGED diagVars
    /\ UNCHANGED reqVars
    /\ UNCHANGED scanVars
    /\ UNCHANGED wizVars
    /\ UNCHANGED instVars
    /\ UNCHANGED gitVars
    /\ UNCHANGED callVars
    /\ UNCHANGED wlogVars

\* -------------------------------------------------- LogAnalyzer.diagnose_logs
\* DIAGNOSTIC_PATTERNS, in declared order.  A character of PatternChars(k) is
\* a piece of text that pattern k matches (the patterns ignore case).
NumPatterns == 8
ImportErrorRule == 6

PatternChars(k) ==
    CASE k = 1 -> {"OperationalError: FATAL: database \"x\" does not exist"}
      [] k = 2 -> {"psycopg2.OperationalError: FATAL: password authentication failed for user"}
      [] k = 3 -> {"Connection refused"}
      [] k = 4 -> {"wkhtmltopdf: error", "WKHTMLTOPDF: ERROR"}
      [] k = 5 -> {"Permission denied"}
      [] k = 6 -> {"ImportError: No module named 'foo'",
                   "ImportError: No module named 'bar'"}
      [] k = 7 -> {"could not translate host name h to address: Temporary failure in name resolution"}
      [] k = 8 -> {"bus.Bus unavailable, Bus.Notification unavailable"}

\* match.group(1) of the ImportError pattern
GroupModule(c) ==
    IF c = "ImportError: No module named 'foo'" THEN "foo" ELSE "bar"

\* pattern.search(line): the index of the leftmost match, 0 when none
Search(k, line) ==
    IF \E i \in 1..Len(line) : line[i] \in PatternChars(k)
    THEN CHOOSE i \in 1..Len(line) :
            /\ line[i] \in PatternChars(k)
            /\ \A j \in 1..(i - 1) : line[j] \notin PatternChars(k)
    ELSE 0

\* line 169: the hint text, fixed or computed from the match
HintText(k, line) ==
    IF k = ImportErrorRule
    THEN <<"Hint: Python module not found", GroupModule(line[Search(k, line)])>>
    ELSE <<"Hint: static text of pattern", ToString(k)>>

\* line 163: "ERROR" in line or "CRITICAL" in line or "WARNING" in line
MarkerChars == {"H_ERROR", "H_CRITICAL", "H_WARNING", "ERROR", "WKHTMLTOPDF: ERROR"}

\* HasMarker with the test of line 163 left out
HasMarkerAlways(line) == TRUE

HasMarker(line) == \E i \in 1..Len(line) : line[i] \in MarkerChars

\* line[-150:]
ExcerptLen == 150
Excerpt(line) ==
    IF Len(line) <= ExcerptLen THEN line
    ELSE SubSeq(line, Len(line) - ExcerptLen + 1, Len(line))

\* IsNewHint without the deduplication
IsNewHintAlways(text, seen) == TRUE

\* lines 170-172: the hint is appended unless its text was emitted before
IsNewHint(text, seen) == text \notin seen

RECURSIVE ApplyPatternsFirstMatch(_, _, _, _)
\* ApplyPatterns with the break of line 173 taken after the first match
ApplyPatternsFirstMatch(k, line, hs, seen) ==
    IF k > NumPatterns THEN [hints |-> hs, seen |-> seen]
    ELSE IF Search(k, line) # 0
         THEN IF IsNewHint(HintText(k, line), seen)
              THEN [hints |-> Append(hs, [kind |-> "rule", text |-> HintText(k, line),
                                          excerpt |-> Excerpt(line)]),
                    seen |-> seen \cup {HintText(k, line)}]
              ELSE [hints |-> hs, seen |-> seen]
         ELSE ApplyPatternsFirstMatch(k + 1, line, hs, seen)

RECURSIVE ApplyPatterns(_, _, _, _)
\* lines 166-172: every pattern from k on, in order, against one line
ApplyPatterns(k, line, hs, seen) ==
    IF k > NumPatterns THEN [hints |-> hs, seen |-> seen]
    ELSE IF Search(k, line) # 0 /\ IsNewHint(HintText(k, line), seen)
         THEN ApplyPatterns(k + 1, line,
                  Append(hs, [kind |-> "rule", text |-> HintText(k, line),
                              excerpt |-> Excerpt(line)]),
                  seen \cup {HintText(k, line)})
         ELSE ApplyPatterns(k + 1, line, hs, seen)

FallbackHint ==
    [kind |-> "fallback",
     text |-> <<"No specific common issues automatically diagnosed", "">>,
     excerpt |-> <<>>]

\* lines 158-159
DiagnoseLogsEnter ==
    /\ pc = "diag_call"
    /\ hints' = <<>>
    /\ unique_hints' = {}
    /\ line_idx' = 1
    /\ pc' = "diag_loop"
    /\ UNCHANGED log_lines
    /\ UNCHANGED logVars
    /\ UNCHANGED reqVars
    /\ UNCHANGED scanVars
    /\ UNCHANGED wizVars
    /\ UNCHANGED instVars
    /\ UNCHANGED gitVars
    /\ UNCHANGED callVars
    /\ UNCHANGED wlogVars

\* lines 161-172: one line of the input
DiagnoseLogsLine ==
    /\ pc = "diag_loop"
    /\ line_idx <= Len(log_lines)
    /\ LET line == log_lines[line_idx]
           r == ApplyPatterns(1, line, hints, unique_hints)
       IN IF ~HasMarker(line)
          THEN UNCHANGED <<hints, unique_hints>>
          ELSE /\ hints' = r.hints
               /\ unique_hints' = r.seen
    /\ line_idx' = line_idx + 1
    /\ UNCHANGED <<pc, log_lines>>
    /\ UNCHANGED logVars
    /\ UNCHANGED reqVars
    /\ UNCHANGED scanVars
    /\ UNCHANGED wizVars
    /\ UNCHANGED instVars
    /\ UNCHANGED gitVars
    /\ UNCHANGED callVars
    /\ UNCHANGED wlogVars

\* DiagnoseLogsReturn appending the fallback hint unconditionally
DiagnoseLogsReturnAlwaysFallback ==
    /\ pc = "diag_loop"
    /\ line_idx > Len(log_lines)
    /\ hints' = Append(hints, FallbackHint)
    /\ pc' = "diag_returned"
    /\ UNCHANGED <<log_lines, line_idx, unique_hints>>
    /\ UNCHANGED logVars
    /\ UNCHANGED reqVars
    /\ UNCHANGED scanVars
    /\ UNCHANGED wizVars
    /\ UNCHANGED instVars
    /\ UNCHANGED gitVars
    /\ UNCHANGED callVars
    /\ UNCHANGED wlogVars

\* lines 175-177: the fallback hint and the return
DiagnoseLogsReturn ==
    /\ pc = "diag_loop"
    /\ line_idx > Len(log_lines)
    /\ hints' = IF hints = <<>> THEN <<FallbackHint>> ELSE hints
    /\ pc' = "diag_returned"
    /\ UNCHANGED <<log_lines, line_idx, unique_hints>>
    /\ UNCHANGED logVars
    /\ UNCHANGED reqVars
    /\ UNCHANGED scanVars
    /\ UNCHANGED wizVars
    /\ UNCHANGED instVars
    /\ UNCHANGED gitVars
    /\ UNCHANGED callVars
    /\ UNCHANGED wlogVars

\* ------------------------------- AddonRequirementsChecker._check_package_installed
\* A requirement string is a sequence of characters: a package name (one
\* character per name), the characters of the comparison operators, version
\* numbers (one character per version) and the comma.
Names == {"libfoo", "LibFoo", "lib_bar"}
PlainVersions == {"1.0", "1.5", "2.0"}
InstalledVersions == PlainVersions \cup {"v1.5"}

\* packaging.utils.canonicalize_name: lower case, runs of - _ . become -
canonicalize_name(name) ==
    CASE name = "LibFoo" -> "libfoo"
      [] name = "lib_bar" -> "lib-bar"
      [] OTHER -> name

\* str(packaging.version.parse(v)): the normalized version
NormalizeVersion(v) == IF v = "v1.5" THEN "1.5" ELSE v

\* the release segment of a version as a number, for ordering
VersionKey(v) ==
    CASE NormalizeVersion(v) = "1.0" -> 10
      [] NormalizeVersion(v) = "1.5" -> 15
      [] NormalizeVersion(v) = "2.0" -> 20

\* the operator a specifier clause starts with, longest first; "" when none
OperatorAt(cs) ==
    IF Len(cs) >= 3 /\ SubSeq(cs, 1, 3) = <<"=", "=", "=">> THEN "==="
    ELSE IF Len(cs) >= 2 /\ cs[2] = "=" /\ cs[1] \in {"=", ">", "<", "!", "~"}
         THEN (CASE cs[1] = "=" -> "==" [] cs[1] = ">" -> ">="
                 [] cs[1] = "<" -> "<=" [] cs[1] = "!" -> "!="
                 [] cs[1] = "~" -> "~=")
    ELSE IF Len(cs) >= 1 /\ cs[1] \in {">", "<"} THEN cs[1]
    ELSE ""

OperatorLen(op) == IF op = "===" THEN 3 ELSE IF op \in {">", "<"} THEN 1 ELSE 2

RECURSIVE ParseSpecifier(_, _)
\* the clauses "op version", separated by commas, of a specifier; ok is FALSE
\* when the text is not a specifier
ParseSpecifier(cs, acc) ==
    IF OperatorAt(cs) = "" THEN [ok |-> FALSE, clauses |-> {}]
    ELSE LET op == OperatorAt(cs)
             rest == SubSeq(cs, OperatorLen(op) + 1, Len(cs))
         IN IF rest = <<>> \/ rest[1] \notin PlainVersions
            THEN [ok |-> FALSE, clauses |-> {}]
            ELSE LET found == acc \cup {[op |-> op, version |-> rest[1]]}
                 IN IF Len(rest) = 1 THEN [ok |-> TRUE, clauses |-> found]
                    ELSE IF rest[2] = "," /\ Len(rest) >= 3
                         THEN ParseSpecifier(SubSeq(rest, 3, Len(rest)), found)
                    ELSE [ok |-> FALSE, clauses |-> {}]

\* packaging.requirements.Requirement(spec): the name and the specifier set,
\* or ok = FALSE for InvalidRequirement
Requirement(spec) ==
    IF spec = <<>> \/ spec[1] \notin Names
    THEN [ok |-> FALSE, name |-> "", specifier |-> {}]
    ELSE IF Len(spec) = 1 THEN [ok |-> TRUE, name |-> spec[1], specifier |-> {}]
    ELSE LET p == ParseSpecifier(Tail(spec), {})
         IN [ok |-> p.ok, name |-> IF p.ok THEN spec[1] ELSE "",
             specifier |-> p.clauses]

\* one clause of a specifier against a version
ClauseHolds(v, c) ==
    CASE c.op = "==" -> VersionKey(v) = VersionKey(c.version)
      [] c.op = "!=" -> VersionKey(v) # VersionKey(c.version)
      [] c.op = ">=" -> VersionKey(v) >= VersionKey(c.version)
      [] c.op = "<=" -> VersionKey(v) <= VersionKey(c.version)
      [] c.op = ">" -> VersionKey(v) > VersionKey(c.version)
      [] c.op = "<" -> VersionKey(v) < VersionKey(c.version)
      [] c.op = "~=" -> /\ VersionKey(v) >= VersionKey(c.version)
                        /\ VersionKey(v) \div 10 = VersionKey(c.version) \div 10
      [] c.op = "===" -> v = c.version

\* version in SpecifierSet
InSpecifierSet(v, specifier) == \A c \in specifier : ClauseHolds(v, c)

\* spec.split('==')[0].split('>=')[0]. ... .split('<')[0].strip(): the text
\* before the first comparison operator
IsOperatorStart(cs, i) ==
    \/ cs[i] \in {">", "<"}
    \/ cs[i] \in {"=", "!", "~"} /\ i < Len(cs) /\ cs[i + 1] = "="

NameOnly(cs) ==
    IF \E i \in 1..Len(cs) : IsOperatorStart(cs, i)
    THEN SubSeq(cs, 1, (CHOOSE i \in 1..Len(cs) :
                          /\ IsOperatorStart(cs, i)
                          /\ \A j \in 1..(i - 1) : ~IsOperatorStart(cs, j)) - 1)
    ELSE cs

\* importlib_metadata.distribution(name): the registry's entry for the
\* name, which the lookup normalizes; "absent" for any text that is no name
Distribution(text) ==
    IF Len(text) = 1 /\ text[1] \in Names /\ canonicalize_name(text[1]) \in DOMAIN registry
    THEN registry[canonicalize_name(text[1])]
    ELSE "absent"

\* a status message: its wording, and the installed and required values
\* it quotes
Msg(kind, installed, clauses) ==
    [kind |-> kind, installed |-> installed, required |-> clauses]

\* the third component of the result: str(SpecifierSet) (its clauses), the
\* original requirement string, or None (both empty)
Required(clauses, text) == [clauses |-> clauses, text |-> text]
NoRequired == Required({}, <<>>)

\* the triple (is_installed, status_msg, req_ver_spec_str)
CheckResult(is_installed, status_msg, required) ==
    [is_installed |-> is_installed, status_msg |-> status_msg, required |-> required]

\* line 135: the truth value of the SpecifierSet
HasSpecifier(specifier) == specifier # {}

\* lines 125-146: the lookup and the classification
Classify(dist, specifier) ==
    IF dist = "absent"
    THEN CheckResult(FALSE, Msg("Not installed", "", {}), Required(specifier, <<>>))
    ELSE IF dist = "error"
    THEN CheckResult(FALSE, Msg("Error checking", "", {}), Required(specifier, <<>>))
    ELSE IF HasSpecifier(specifier)
    THEN IF InSpecifierSet(NormalizeVersion(dist), specifier)
         THEN CheckResult(TRUE, Msg("Installed", NormalizeVersion(dist), {}),
                          Required(specifier, <<>>))
         ELSE CheckResult(FALSE,
                          Msg("Version conflict", NormalizeVersion(dist), specifier),
                          Required(specifier, <<>>))
    ELSE CheckResult(TRUE, Msg("Installed", NormalizeVersion(dist), {}), NoRequired)

\* lines 111-146: _check_package_installed_advanced
CheckPackageInstalledAdvanced(spec) ==
    LET req == Requirement(spec)
    IN IF req.ok
       THEN Classify(Distribution(<<req.name>>), req.specifier)
       ELSE Classify(Distribution(NameOnly(spec)), {})

\* lines 96-108: _check_package_installed_basic
CheckPackageInstalledBasic(text) ==
    LET dist == Distribution(text)
    IN IF dist = "absent" THEN CheckResult(FALSE, Msg("Not installed", "", {}), NoRequired)
       ELSE IF dist = "error"
       THEN CheckResult(FALSE, Msg("Error checking package", "", {}), NoRequired)
       ELSE CheckResult(TRUE, Msg("Installed", dist, {}), NoRequired)

\* lines 152-157: the degraded mode of _check_package_installed
CheckPackageInstalledNameOnly(spec) ==
    LET r == CheckPackageInstalledBasic(NameOnly(spec))
    IN IF ~r.is_installed /\ r.status_msg.kind = "Not installed"
       THEN CheckResult(r.is_installed, r.status_msg, Required({}, spec))
       ELSE CheckResult(r.is_installed, r.status_msg, NoRequired)

\* lines 9-12, 99-105, 126-131 and 142: the lookup goes through the name
\* importlib_metadata when sys.modules has the key 'importlib_metadata' and
\* through the name pkg_resources otherwise. Line 10 binds importlib_metadata
\* (and enters the key 'importlib.metadata'); line 12 binds pkg_resources
\* only when line 10 failed. The name used is unbound, and NameError leaves
\* the function, when the key is absent although line 10 worked, or present
\* although it failed.
MetadataLookupRaises == stdlib_metadata # backport_loaded

\* what _check_package_installed returns when the lookup is usable
CheckPackageInstalledResult(spec) ==
    IF packaging_available THEN CheckPackageInstalledAdvanced(spec)
    ELSE CheckPackageInstalledNameOnly(spec)

\* lines 148-157: _check_package_installed
CheckPackageInstalled ==
    /\ pc = "check_call"
    /\ IF MetadataLookupRaises
       THEN pc' = "check_raised" /\ UNCHANGED check_result
       ELSE /\ check_result' = CheckPackageInstalledResult(package_spec)
            /\ pc' = "check_returned"
    /\ UNCHANGED <<packaging_available, stdlib_metadata, backport_loaded,
                   registry, package_spec, spec_parts>>
    /\ UNCHANGED logVars
    /\ UNCHANGED diagVars
    /\ UNCHANGED scanVars
    /\ UNCHANGED wizVars
    /\ UNCHANGED instVars
    /\ UNCHANGED gitVars
    /\ UNCHANGED callVars
    /\ UNCHANGED wlogVars

\* the wizard records
Sessions == {"w1", "w2"}

\* ---------------------------------- AddonRequirementsChecker.find_requirements
\* A root of addons_path is a record: its kind ("missing", "notdir",
\* "unlistable", "dir") and, for a directory, its entries in os.listdir
\* order. An entry has a name, is_module (a directory holding __manifest__.py)
\* and the state of its requirements.txt: whether it exists, whether open()
\* succeeds, and its content as the chunks the text reader decodes one after
\* the other, each the lines lying in it, or undecodable.
Entry(name, is_module, requirements) ==
    [name |-> name, is_module |-> is_module, file |-> requirements]

File(exists, readable, chunks) ==
    [exists |-> exists, readable |-> readable, chunks |-> chunks]

ChunkOf(lines) == [decodable |-> TRUE, lines |-> lines]
BadChunk == [decodable |-> FALSE, lines |-> <<>>]

RECURSIVE LStrip(_)
LStrip(cs) == IF cs # <<>> /\ Head(cs) = " " THEN LStrip(Tail(cs)) ELSE cs

RECURSIVE RStrip(_)
RStrip(cs) ==
    IF cs # <<>> /\ cs[Len(cs)] = " " THEN RStrip(SubSeq(cs, 1, Len(cs) - 1))
    ELSE cs

\* str.strip()
Strip(cs) == RStrip(LStrip(cs))

\* line 61: the stripped line is kept
IsRequirementLine(line) == Strip(line) # <<>> /\ Strip(line)[1] # "#"

RECURSIVE LinePackages(_)
\* lines 59-62 over the lines of one chunk
LinePackages(lines) ==
    IF lines = <<>> THEN <<>>
    ELSE (IF IsRequirementLine(Head(lines)) THEN <<Strip(Head(lines))>> ELSE <<>>)
         \o LinePackages(Tail(lines))

RECURSIVE ReadChunks(_, _)
\* lines 58-64: the loop over the file, left by the exception of the first
\* chunk that does not decode; the lines read before it stay in packages
ReadChunks(chunks, packages) ==
    IF chunks = <<>> THEN [packages |-> packages, error |-> FALSE]
    ELSE IF ~Head(chunks).decodable THEN [packages |-> packages, error |-> TRUE]
    ELSE ReadChunks(Tail(chunks), packages \o LinePackages(Head(chunks).lines))

\* lines 55-65: _parse_requirements_file, with whether it logged an error
ParseRequirementsFile(requirements) ==
    IF ~requirements.readable THEN [packages |-> <<>>, error |-> TRUE]
    ELSE ReadChunks(requirements.chunks, <<>>)

\* a diagnostic: its level, the root it is about and the module ("" for the
\* root itself)
Message(level, root, module) == [level |-> level, root |-> root, module |-> module]

DictKeys(d) == {d[i].module_name : i \in 1..Len(d)}

\* d[k] = v on a dict kept in insertion order: a key already present keeps
\* its place
DictSet(d, k, v) ==
    IF k \in DictKeys(d)
    THEN [i \in 1..Len(d) |->
            IF d[i].module_name = k THEN [module_name |-> k, packages |-> v]
            ELSE d[i]]
    ELSE Append(d, [module_name |-> k, packages |-> v])

RECURSIVE ScanEntries(_, _, _)
\* lines 80-92: the loop over os.listdir(addons_path); st is the dict and
\* the messages so far
ScanEntries(i, entries, st) ==
    IF entries = <<>> THEN st
    ELSE LET e == Head(entries)
             parsed == ParseRequirementsFile(e.file)
             msgs == IF parsed.error
                     THEN Append(st.messages, Message("error", i, e.name))
                     ELSE st.messages
         IN IF e.is_module /\ e.file.exists
            THEN ScanEntries(i, Tail(entries),
                     [dict |-> IF parsed.packages # <<>>
                               THEN DictSet(st.dict, e.name, parsed.packages)
                               ELSE st.dict,
                      messages |-> msgs])
            ELSE ScanEntries(i, Tail(entries), st)

\* ScanRoot losing what was found when the root cannot be scanned
ScanRootAborting(i, root, st) ==
    IF root.kind = "dir" THEN ScanEntries(i, root.entries, st)
    ELSE [dict |-> <<>>, messages |-> Append(st.messages, Message("error", i, ""))]

\* lines 74-93: one pass of the loop over addons_paths
ScanRoot(i, root, st) ==
    IF root.kind \in {"missing", "notdir"}
    THEN [dict |-> st.dict,
          messages |-> Append(st.messages, Message("warning", i, ""))]
    ELSE IF root.kind = "unlistable"
    THEN [dict |-> st.dict,
          messages |-> Append(st.messages, Message("error", i, ""))]
    ELSE ScanEntries(i, root.entries, st)

\* lines 67-71: find_requirements is entered
FindRequirementsEnter ==
    /\ pc = "find_call"
    /\ module_requirements' = <<>>
    /\ IF addons_paths = <<>>
       THEN /\ messages' = Append(messages, Message("warning", 0, ""))
            /\ pc' = "find_returned"
            /\ UNCHANGED root_idx
       ELSE /\ root_idx' = 1
            /\ pc' = "find_loop"
            /\ UNCHANGED messages
    /\ UNCHANGED <<addons_paths, mod_idx, pkg_idx, to_install, satisfied, errors, self>>
    /\ UNCHANGED <<logVars, diagVars, reqVars, wizVars, instVars>>
    /\ UNCHANGED gitVars
    /\ UNCHANGED callVars
    /\ UNCHANGED wlogVars

\* lines 73-93: the next root is scanned
FindRequirementsRoot ==
    /\ pc = "find_loop"
    /\ root_idx <= Len(addons_paths)
    /\ LET st == ScanRoot(root_idx, addons_paths[root_idx],
                          [dict |-> module_requirements, messages |-> messages])
       IN /\ module_requirements' = st.dict
          /\ messages' = st.messages
    /\ root_idx' = root_idx + 1
    /\ UNCHANGED <<pc, addons_paths, mod_idx, pkg_idx, to_install, satisfied,
                   errors, self>>
    /\ UNCHANGED <<logVars, diagVars, reqVars, wizVars, instVars>>
    /\ UNCHANGED gitVars
    /\ UNCHANGED callVars
    /\ UNCHANGED wlogVars

\* line 94: find_requirements returns the dict
FindRequirementsReturn ==
    /\ pc = "find_loop"
    /\ root_idx > Len(addons_paths)
    /\ pc' = "find_returned"
    /\ UNCHANGED <<logVars, diagVars, reqVars, scanVars, wizVars, instVars>>
    /\ UNCHANGED gitVars
    /\ UNCHANGED callVars
    /\ UNCHANGED wlogVars

\* -------------------------------- AddonRequirementsChecker.analyze_dependencies
\* lines 162-171: the lists are created; an empty dict is answered at once
AnalyzeDependenciesEnter ==
    /\ pc = "find_returned"
    /\ to_install' = <<>>
    /\ satisfied' = <<>>
    /\ errors' = <<>>
    /\ mod_idx' = 1
    /\ pkg_idx' = 1
    /\ pc' = IF module_requirements = <<>> THEN "analyze_returned" ELSE "analyze_loop"
    /\ UNCHANGED <<addons_paths, root_idx, module_requirements, messages, self>>
    /\ UNCHANGED <<logVars, diagVars, reqVars, wizVars, instVars>>
    /\ UNCHANGED gitVars
    /\ UNCHANGED callVars
    /\ UNCHANGED wlogVars

\* an entry of one of the three lists
Item(module, spec, text) == [module |-> module, package_spec |-> spec, text |-> text]

\* lines 183-191: the list a result goes to
ListOf(r) ==
    IF r.is_installed THEN "satisfied"
    ELSE IF r.status_msg.kind \in {"Not installed", "Version conflict"}
    THEN "to_install"
    ELSE "errors"

\* lines 179-191: the next requirement string is checked and filed; the
\* NameError of the lookup leaves analyze_dependencies
AnalyzeDependenciesPackage ==
    /\ pc = "analyze_loop"
    /\ mod_idx <= Len(module_requirements)
    /\ LET m == module_requirements[mod_idx]
           spec == m.packages[pkg_idx]
           r == CheckPackageInstalledResult(spec)
           item == Item(m.module_name, spec, r.status_msg)
       IN IF MetadataLookupRaises
          THEN /\ pc' = "analyze_raised"
               /\ UNCHANGED <<mod_idx, pkg_idx, to_install, satisfied, errors>>
          ELSE /\ to_install' = IF ListOf(r) = "to_install"
                                THEN Append(to_install, item) ELSE to_install
               /\ satisfied' = IF ListOf(r) = "satisfied"
                               THEN Append(satisfied, item) ELSE satisfied
               /\ errors' = IF ListOf(r) = "errors"
                            THEN Append(errors, item) ELSE errors
               /\ IF pkg_idx < Len(m.packages)
                  THEN pkg_idx' = pkg_idx + 1 /\ UNCHANGED mod_idx
                  ELSE pkg_idx' = 1 /\ mod_idx' = mod_idx + 1
               /\ UNCHANGED pc
    /\ UNCHANGED <<addons_paths, root_idx, module_requirements, messages, self>>
    /\ UNCHANGED <<logVars, diagVars, reqVars, wizVars, instVars>>
    /\ UNCHANGED gitVars
    /\ UNCHANGED callVars
    /\ UNCHANGED wlogVars

\* lines 194-201: the lists are returned
AnalyzeDependenciesReturn ==
    /\ pc = "analyze_loop"
    /\ mod_idx > Len(module_requirements)
    /\ pc' = "analyze_returned"
    /\ UNCHANGED <<logVars, diagVars, reqVars, scanVars, wizVars, instVars>>
    /\ UNCHANGED gitVars
    /\ UNCHANGED callVars
    /\ UNCHANGED wlogVars

\* ------------------- SetupAssistWizard.action_scan_addon_python_dependencies
RECURSIVE Join(_)
\* ";;;".join(specs): the specs with the separator between them
Join(specs) ==
    IF specs = <<>> THEN <<>>
    ELSE IF Len(specs) = 1 THEN Head(specs)
    ELSE Head(specs) \o <<";;;">> \o Join(Tail(specs))

\* wizard lines 226 and 263: the package_spec of every item
SpecsOf(items) == [i \in 1..Len(items) |-> items[i].package_spec]

\* wizard lines 215-225: the fields are reset and the checker is called
ActionScanEnter ==
    /\ pc = "scan_call"
    /\ entry = "scan"
    /\ addon_req_status' = [addon_req_status EXCEPT ![self] = "scanned_error"]
    /\ packages_to_install_list' = [packages_to_install_list EXCEPT ![self] = <<>>]
    /\ pc' = "find_call"
    /\ UNCHANGED <<logVars, diagVars, reqVars, scanVars, instVars>>
    /\ UNCHANGED gitVars
    /\ UNCHANGED callVars
    /\ UNCHANGED wlogVars

\* wizard lines 226-241: the specs to install and the status are stored
ActionScanStore ==
    /\ pc = "analyze_returned"
    /\ entry = "scan"
    /\ packages_to_install_list' =
          [packages_to_install_list EXCEPT ![self] = Join(SpecsOf(to_install))]
    /\ addon_req_status' =
          [addon_req_status EXCEPT ![self] =
              IF errors # <<>> THEN "scanned_error"
              ELSE IF to_install = <<>> THEN "scanned_ok"
              ELSE "scanned_issues"]
    /\ pc' = "scan_done"
    /\ UNCHANGED <<logVars, diagVars, reqVars, scanVars, instVars>>
    /\ UNCHANGED gitVars
    /\ UNCHANGED callVars
    /\ UNCHANGED wlogVars

\* wizard lines 242-244: an exception of the checker is caught
ActionScanExcept ==
    /\ pc = "analyze_raised"
    /\ entry = "scan"
    /\ addon_req_status' = [addon_req_status EXCEPT ![self] = "scanned_error"]
    /\ pc' = "scan_done"
    /\ UNCHANGED packages_to_install_list
    /\ UNCHANGED <<logVars, diagVars, reqVars, scanVars, instVars>>
    /\ UNCHANGED gitVars
    /\ UNCHANGED callVars
    /\ UNCHANGED wlogVars

\* wizard lines 324-332: action_run_all_scans calls the checker; the fields
\* of the dependency scan are not reset
ActionRunAllScansEnter ==
    /\ pc = "scan_call"
    /\ entry = "run_all"
    /\ pc' = "find_call"
    /\ UNCHANGED <<logVars, diagVars, reqVars, scanVars, wizVars, instVars>>
    /\ UNCHANGED gitVars
    /\ UNCHANGED callVars
    /\ UNCHANGED wlogVars

\* wizard lines 333-340: the specs to install and the status are stored
ActionRunAllScansStore ==
    /\ pc = "analyze_returned"
    /\ entry = "run_all"
    /\ packages_to_install_list' =
          [packages_to_install_list EXCEPT ![self] = Join(SpecsOf(to_install))]
    /\ addon_req_status' =
          [addon_req_status EXCEPT ![self] =
              IF to_install # <<>> THEN "scanned_issues"
              ELSE IF errors # <<>> THEN "scanned_error"
              ELSE "scanned_ok"]
    /\ pc' = "scan_done"
    /\ UNCHANGED <<logVars, diagVars, reqVars, scanVars, instVars>>
    /\ UNCHANGED gitVars
    /\ UNCHANGED callVars
    /\ UNCHANGED wlogVars

\* wizard lines 341-343: an exception of the checker is caught
ActionRunAllScansExcept ==
    /\ pc = "analyze_raised"
    /\ entry = "run_all"
    /\ addon_req_status' = [addon_req_status EXCEPT ![self] = "scanned_error"]
    /\ pc' = "scan_done"
    /\ UNCHANGED packages_to_install_list
    /\ UNCHANGED <<logVars, diagVars, reqVars, scanVars, instVars>>
    /\ UNCHANGED gitVars
    /\ UNCHANGED callVars
    /\ UNCHANGED wlogVars

\* ------------------------------------ AddonRequirementsChecker.install_packages
\* Every wizard record runs its own install action, with its own checker and
\* its own locals; the variables of a run are indexed by the record.
\* A process of the package manager: the requirement it was started for, its
\* state ("not_started" when Popen raised, "running", "exited", "killed"),
\* whether communicate() timed out on it, and what it left when it exited.
Process(spec, state, timed_out, returncode, stdout, stderr) ==
    [package_spec |-> spec, state |-> state, timed_out |-> timed_out,
     returncode |-> returncode, stdout |-> stdout, stderr |-> stderr]

\* how a process of the package manager can end: exit code and output
ExitOutcomes ==
    {[returncode |-> "0", stdout |-> "Successfully installed", stderr |-> ""],
     [returncode |-> "1", stdout |-> "", stderr |-> "No matching distribution"],
     [returncode |-> "2", stdout |-> "Collecting", stderr |-> "Invalid requirement"]}

\* the diagnostic texts stored in 'failed'
FailText(kind, returncode, stdout, stderr) ==
    [kind |-> kind, returncode |-> returncode, stdout |-> stdout, stderr |-> stderr]

\* line 235
ReturnCodeText(p) == FailText("PIP Return Code", p.returncode, p.stdout, p.stderr)
\* line 238
TimeoutText == FailText("Installation timed out after 5 minutes.", "", "", "")
\* line 244: str(e) of the exception of Popen
ExceptionText == FailText("[Errno 11] Resource temporarily unavailable", "", "", "")

FailedKeys(d) == {d[i].package_spec : i \in 1..Len(d)}

\* failed[spec] = text on a dict kept in insertion order
FailedSet(d, spec, text) ==
    IF spec \in FailedKeys(d)
    THEN [i \in 1..Len(d) |->
            IF d[i].package_spec = spec THEN [package_spec |-> spec, text |-> text]
            ELSE d[i]]
    ELSE Append(d, [package_spec |-> spec, text |-> text])

RECURSIVE SplitAt(_, _, _)
\* str.split(';;;')
SplitAt(cs, cur, acc) ==
    IF cs = <<>> THEN Append(acc, cur)
    ELSE IF Head(cs) = ";;;" THEN SplitAt(Tail(cs), <<>>, Append(acc, cur))
    ELSE SplitAt(Tail(cs), Append(cur, Head(cs)), acc)

RECURSIVE StripNonEmpty(_)
StripNonEmpty(parts) ==
    IF parts = <<>> THEN <<>>
    ELSE (IF Strip(Head(parts)) # <<>> THEN <<Strip(Head(parts))>> ELSE <<>>)
         \o StripNonEmpty(Tail(parts))

\* wizard line 252: the specs of packages_to_install_list
SplitSpecs(text) == StripNonEmpty(SplitAt(text, <<>>, <<>>))

\* MayStart under a lock that lets one process of the package manager run
MayStartExclusive(w) ==
    \A v \in Sessions \ {w} :
        \A i \in 1..Len(processes[v]) : processes[v][i].state # "running"

\* lines 215-219: what must hold, besides the loop reaching the spec, for
\* Popen to be called: nothing is acquired or tested
MayStart(w) == TRUE

\* communicate() answering without waiting for the process
CommunicateReturnsAtOnce(p) == TRUE

\* line 220: communicate() answers when the process has exited
CommunicateReturns(p) == p.state = "exited"

\* a process counted as successful whatever its exit code
SucceededAlways(p) == TRUE

\* line 230
Succeeded(p) == p.returncode = "0"

\* the timeout handler leaving the process alone
AfterTimeoutNoKill(p) == p

\* lines 239-241: a process still running is killed and reaped
AfterTimeout(p) ==
    IF p.state = "running"
    THEN Process(p.package_spec, "killed", TRUE, "-9", "", "")
    ELSE p

SetLast(ps, p) == [ps EXCEPT ![Len(ps)] = p]

\* a failure making the loop try the same spec again
SameSpecAgain(i) == i

\* lines 215 and 232-244: after a failure the loop goes on to the next spec
AfterFailure(i) == i + 1

\* wizard lines 246-252 and lines 203-213: the install action is started
\* on record w; with nothing to install it returns at once
ActionInstallEnter(w) ==
    /\ ipc[w] \in {"ready", "done"}
    /\ IF packages_to_install_list[w] = <<>>
       THEN /\ ipc' = [ipc EXCEPT ![w] = "done"]
            /\ UNCHANGED <<packages_specs, spec_idx, processes, success, failed,
                           addon_req_status>>
       ELSE /\ addon_req_status' = [addon_req_status EXCEPT ![w] = "install_inprogress"]
            /\ packages_specs' = [packages_specs EXCEPT ![w] =
                                     SplitSpecs(packages_to_install_list[w])]
            /\ spec_idx' = [spec_idx EXCEPT ![w] = 1]
            /\ processes' = [processes EXCEPT ![w] = <<>>]
            /\ success' = [success EXCEPT ![w] = <<>>]
            /\ failed' = [failed EXCEPT ![w] = <<>>]
            /\ ipc' = [ipc EXCEPT ![w] =
                          IF SplitSpecs(packages_to_install_list[w]) = <<>>
                          THEN "returned" ELSE "loop"]
    /\ UNCHANGED packages_to_install_list
    /\ UNCHANGED <<pc, logVars, diagVars, reqVars, scanVars>>
    /\ UNCHANGED gitVars
    /\ UNCHANGED callVars
    /\ UNCHANGED wlogVars

\* lines 215-219: Popen starts the package manager for the next spec
InstallPopen(w) ==
    /\ ipc[w] = "loop"
    /\ spec_idx[w] <= Len(packages_specs[w])
    /\ MayStart(w)
    /\ processes' = [processes EXCEPT ![w] =
          Append(@, Process(packages_specs[w][spec_idx[w]], "running", FALSE, "", "", ""))]
    /\ ipc' = [ipc EXCEPT ![w] = "communicate"]
    /\ UNCHANGED <<packages_specs, spec_idx, success, failed>>
    /\ UNCHANGED <<pc, logVars, diagVars, reqVars, scanVars, wizVars>>
    /\ UNCHANGED gitVars
    /\ UNCHANGED callVars
    /\ UNCHANGED wlogVars

\* lines 219 and 242-244: Popen raises, no process exists
InstallPopenRaises(w) ==
    /\ ipc[w] = "loop"
    /\ spec_idx[w] <= Len(packages_specs[w])
    /\ processes' = [processes EXCEPT ![w] =
          Append(@, Process(packages_specs[w][spec_idx[w]], "not_started", FALSE, "", "", ""))]
    /\ failed' = [failed EXCEPT ![w] =
          FailedSet(@, packages_specs[w][spec_idx[w]], ExceptionText)]
    /\ spec_idx' = [spec_idx EXCEPT ![w] = AfterFailure(@)]
    /\ UNCHANGED <<ipc, packages_specs, success>>
    /\ UNCHANGED <<pc, logVars, diagVars, reqVars, scanVars, wizVars>>
    /\ UNCHANGED gitVars
    /\ UNCHANGED callVars
    /\ UNCHANGED wlogVars

\* the running process of record w exits
ProcessExits(w) ==
    /\ processes[w] # <<>>
    /\ processes[w][Len(processes[w])].state = "running"
    /\ \E o \in ExitOutcomes :
          processes' = [processes EXCEPT ![w] =
              SetLast(@, Process(@[Len(@)].package_spec, "exited",
                                 @[Len(@)].timed_out,
                                 o.returncode, o.stdout, o.stderr))]
    /\ UNCHANGED <<ipc, packages_specs, spec_idx, success, failed>>
    /\ UNCHANGED <<pc, logVars, diagVars, reqVars, scanVars, wizVars>>
    /\ UNCHANGED gitVars
    /\ UNCHANGED callVars
    /\ UNCHANGED wlogVars

\* lines 220-235: communicate() answers and the exit code is filed
InstallCommunicate(w) ==
    /\ ipc[w] = "communicate"
    /\ LET p == processes[w][Len(processes[w])]
       IN /\ CommunicateReturns(p)
          /\ IF Succeeded(p)
             THEN /\ success' = [success EXCEPT ![w] = Append(@, p.package_spec)]
                  /\ UNCHANGED failed
             ELSE /\ failed' = [failed EXCEPT ![w] =
                        FailedSet(@, p.package_spec, ReturnCodeText(p))]
                  /\ UNCHANGED success
    /\ spec_idx' = [spec_idx EXCEPT ![w] =
          IF Succeeded(processes[w][Len(processes[w])]) THEN @ + 1
          ELSE AfterFailure(@)]
    /\ ipc' = [ipc EXCEPT ![w] = "loop"]
    /\ UNCHANGED <<packages_specs, processes>>
    /\ UNCHANGED <<pc, logVars, diagVars, reqVars, scanVars, wizVars>>
    /\ UNCHANGED gitVars
    /\ UNCHANGED callVars
    /\ UNCHANGED wlogVars

\* lines 220 and 236-238: communicate() times out on the running process
InstallTimeout(w) ==
    /\ ipc[w] = "communicate"
    /\ processes[w][Len(processes[w])].state = "running"
    /\ processes' = [processes EXCEPT ![w] =
          SetLast(@, [@[Len(@)] EXCEPT !.timed_out = TRUE])]
    /\ failed' = [failed EXCEPT ![w] =
          FailedSet(@, packages_specs[w][spec_idx[w]], TimeoutText)]
    /\ ipc' = [ipc EXCEPT ![w] = "timeout"]
    /\ UNCHANGED <<packages_specs, spec_idx, success>>
    /\ UNCHANGED <<pc, logVars, diagVars, reqVars, scanVars, wizVars>>
    /\ UNCHANGED gitVars
    /\ UNCHANGED callVars
    /\ UNCHANGED wlogVars

\* lines 239-241: the handler polls, kills and reaps; the loop goes on
InstallAfterTimeout(w) ==
    /\ ipc[w] = "timeout"
    /\ processes' = [processes EXCEPT ![w] = SetLast(@, AfterTimeout(@[Len(@)]))]
    /\ spec_idx' = [spec_idx EXCEPT ![w] = AfterFailure(@)]
    /\ ipc' = [ipc EXCEPT ![w] = "loop"]
    /\ UNCHANGED <<packages_specs, success, failed>>
    /\ UNCHANGED <<pc, logVars, diagVars, reqVars, scanVars, wizVars>>
    /\ UNCHANGED gitVars
    /\ UNCHANGED callVars
    /\ UNCHANGED wlogVars

\* line 246: install_packages returns
InstallReturn(w) ==
    /\ ipc[w] = "loop"
    /\ spec_idx[w] > Len(packages_specs[w])
    /\ ipc' = [ipc EXCEPT ![w] = "returned"]
    /\ UNCHANGED <<packages_specs, spec_idx, processes, success, failed>>
    /\ UNCHANGED <<pc, logVars, diagVars, reqVars, scanVars, wizVars>>
    /\ UNCHANGED gitVars
    /\ UNCHANGED callVars
    /\ UNCHANGED wlogVars

\* ActionInstallStore without the assignment of the status (line 268)
ActionInstallStoreKeepsStatus(w) ==
    /\ ipc[w] = "returned"
    /\ packages_to_install_list' =
          [packages_to_install_list EXCEPT ![w] = Join(SpecsOf(failed[w]))]
    /\ ipc' = [ipc EXCEPT ![w] = "done"]
    /\ UNCHANGED <<packages_specs, spec_idx, processes, success, failed,
                   addon_req_status>>
    /\ UNCHANGED <<pc, logVars, diagVars, reqVars, scanVars>>
    /\ UNCHANGED gitVars
    /\ UNCHANGED callVars
    /\ UNCHANGED wlogVars

\* wizard lines 255-268: the failed packages_specs are what stays to be installed
ActionInstallStore(w) ==
    /\ ipc[w] = "returned"
    /\ IF failed[w] # <<>>
       THEN /\ addon_req_status' = [addon_req_status EXCEPT ![w] = "install_done_errors"]
            /\ packages_to_install_list' =
                  [packages_to_install_list EXCEPT ![w] = Join(SpecsOf(failed[w]))]
       ELSE /\ addon_req_status' = [addon_req_status EXCEPT ![w] = "install_done_ok"]
            /\ packages_to_install_list' = [packages_to_install_list EXCEPT ![w] = <<>>]
    /\ ipc' = [ipc EXCEPT ![w] = "done"]
    /\ UNCHANGED <<packages_specs, spec_idx, processes, success, failed>>
    /\ UNCHANGED <<pc, logVars, diagVars, reqVars, scanVars>>
    /\ UNCHANGED gitVars
    /\ UNCHANGED callVars
    /\ UNCHANGED wlogVars

\* ------------------------------ SetupAssistGithubRepo.action_clone_or_pull
NoReturn == [success |-> FALSE, message |-> "<no return>"]

\* subprocess.run(command_list, check=True): how the command ends
GitOutcome(cmd, target, env) ==
    IF ~env.installed THEN "FileNotFoundError"
    ELSE IF cmd = "rev-parse"
         THEN IF target = "worktree" THEN "ok" ELSE "CalledProcessError"
    ELSE IF cmd = "reset"
         THEN IF env.reset_ok THEN "ok" ELSE "CalledProcessError"
    ELSE IF env.remote_ok THEN "ok" ELSE "CalledProcessError"

\* lines 55-86: _execute_git_command runs the command, sets last_git_log and
\* last_git_status and returns (ok, message); st holds the commands run and
\* the two fields
ExecuteGitCommand(cmd, st, target, env) ==
    LET o == GitOutcome(cmd, target, env)
    IN [commands |-> Append(st.commands, cmd),
        status |-> IF o = "ok" THEN "success" ELSE "error",
        log |-> IF o = "ok" THEN "output of " \o cmd
                ELSE IF o = "FileNotFoundError" THEN "Git executable not found."
                ELSE "error output of " \o cmd,
        ok |-> o = "ok",
        message |-> IF o = "ok" THEN "output of " \o cmd
                    ELSE IF o = "FileNotFoundError" THEN "Git executable not found"
                    ELSE "Git command failed: " \o cmd]

\* lines 129, 135 and 140 assign the name _ in action_clone_or_pull, which
\* makes it a local name of the whole function: unbound at entry, and bound
\* to the message string of _execute_git_command after such an assignment.
\* Calling _(text) raises UnboundLocalError or TypeError accordingly.
UnderscoreAtEntry == "unbound"

Translate(binding) ==
    IF binding = "unbound" THEN "UnboundLocalError"
    ELSE IF binding = "str" THEN "TypeError"
    ELSE "ok"

GitState == [commands |-> git_commands, status |-> last_git_status,
             log |-> last_git_log]

\* what one step of the action leaves: the position, the exception or the
\* returned pair, the repository fields and the binding of _
GitStep(pos, exc, ret, st, binding) ==
    /\ pc' = pos
    /\ git_exc' = exc
    /\ git_return' = ret
    /\ git_commands' = st.commands
    /\ last_git_status' = st.status
    /\ last_git_log' = st.log
    /\ underscore' = binding

\* lines 88-125: the configuration parameter and the parent directory
ActionCloneOrPullEnter ==
    /\ pc = "git_call"
    /\ IF ~base_git_dir
       THEN /\ GitStep("git_raised",
                       IF Translate(underscore) = "ok" THEN "UserError"
                       ELSE Translate(underscore),
                       git_return, GitState, underscore)
            /\ UNCHANGED parent_dir
       ELSE IF parent_dir = "uncreatable"
       THEN /\ IF Translate(underscore) = "ok"
               THEN GitStep("git_returned", git_exc,
                            [success |-> FALSE,
                             message |-> "Error creating parent directory"],
                            [GitState EXCEPT !.status = "error", !.log = "OSError"],
                            underscore)
               ELSE GitStep("git_raised", Translate(underscore), git_return,
                            GitState, underscore)
            /\ UNCHANGED parent_dir
       ELSE /\ GitStep("git_target", git_exc, git_return, GitState, underscore)
            /\ parent_dir' = "exists"
    /\ UNCHANGED <<base_git_dir, target_path, git_env, is_git_repo>>
    /\ UNCHANGED <<logVars, diagVars, reqVars, scanVars, wizVars, instVars>>
    /\ UNCHANGED callVars
    /\ UNCHANGED wlogVars

\* lines 127-130: the target exists; git rev-parse --is-inside-work-tree
ActionCloneOrPullRevParse ==
    /\ pc = "git_target"
    /\ target_path # "absent"
    /\ LET r == ExecuteGitCommand("rev-parse", GitState, target_path, git_env)
       IN /\ is_git_repo' = r.ok
          /\ GitStep("git_checked", git_exc, git_return, r, "str")
    /\ UNCHANGED <<base_git_dir, parent_dir, target_path, git_env>>
    /\ UNCHANGED <<logVars, diagVars, reqVars, scanVars, wizVars, instVars>>
    /\ UNCHANGED callVars
    /\ UNCHANGED wlogVars

\* lines 132-156: fetch and reset --hard in a work tree, the error otherwise
ActionCloneOrPullPull ==
    /\ pc = "git_checked"
    /\ IF is_git_repo
       THEN IF Translate(underscore) # "ok"
            THEN GitStep("git_raised", Translate(underscore), git_return,
                         GitState, underscore)
            ELSE LET f == ExecuteGitCommand("fetch", GitState, target_path, git_env)
                     r == ExecuteGitCommand("reset", f, target_path, git_env)
                 IN IF ~f.ok
                    THEN GitStep("git_returned", git_exc,
                                 [success |-> FALSE, message |-> "Fetch failed."],
                                 f, "str")
                    ELSE IF ~r.ok
                    THEN GitStep("git_returned", git_exc,
                                 [success |-> FALSE, message |-> r.message],
                                 r, "str")
                    ELSE IF Translate("str") # "ok"
                    THEN GitStep("git_raised", Translate("str"), git_return,
                                 r, "str")
                    ELSE GitStep("git_returned", git_exc,
                                 [success |-> TRUE, message |-> r.message],
                                 r, "str")
       ELSE IF Translate(underscore) # "ok"
            THEN GitStep("git_raised", Translate(underscore), git_return,
                         GitState, underscore)
            ELSE GitStep("git_returned", git_exc,
                         [success |-> FALSE,
                          message |-> "Target path exists but is not a Git repository."],
                         [GitState EXCEPT !.status = "error",
                                          !.log = "Target path exists but is not a Git repository."],
                         underscore)
    /\ UNCHANGED <<base_git_dir, parent_dir, target_path, git_env, is_git_repo>>
    /\ UNCHANGED <<logVars, diagVars, reqVars, scanVars, wizVars, instVars>>
    /\ UNCHANGED callVars
    /\ UNCHANGED wlogVars

\* lines 157-170: the target does not exist; git clone
ActionCloneOrPullClone ==
    /\ pc = "git_target"
    /\ target_path = "absent"
    /\ IF Translate(underscore) # "ok"
       THEN /\ GitStep("git_raised", Translate(underscore), git_return,
                       GitState, underscore)
            /\ UNCHANGED target_path
       ELSE LET c == ExecuteGitCommand("clone", GitState, target_path, git_env)
            IN IF ~c.ok
               THEN /\ GitStep("git_returned", git_exc,
                               [success |-> FALSE, message |-> c.message],
                               c, underscore)
                    /\ UNCHANGED target_path
               ELSE /\ IF Translate(underscore) # "ok"
                       THEN GitStep("git_raised", Translate(underscore),
                                    git_return, c, underscore)
                       ELSE GitStep("git_returned", git_exc,
                                    [success |-> TRUE, message |-> c.message],
                                    c, underscore)
                    /\ target_path' = "worktree"
    /\ UNCHANGED <<base_git_dir, parent_dir, git_env, is_git_repo>>
    /\ UNCHANGED <<logVars, diagVars, reqVars, scanVars, wizVars, instVars>>
    /\ UNCHANGED callVars
    /\ UNCHANGED wlogVars

\* ------------------------------- SetupAssistWizard.action_load_and_analyze_logs
\* wizard line 293: the number of lines fetched when the field is not positive
DefaultLinesToFetch == 200

RECURSIVE NewlineJoin(_)
\* "\n".join(lines)
NewlineJoin(lines) ==
    IF lines = <<>> THEN <<>>
    ELSE IF Len(lines) = 1 THEN Head(lines)
    ELSE Head(lines) \o <<"LF">> \o NewlineJoin(Tail(lines))

RECURSIVE DiagnoseFrom(_, _, _, _)
\* log_analyzer lines 161-172 from line i of the list on
DiagnoseFrom(i, lines, hs, seen) ==
    IF i > Len(lines) THEN hs
    ELSE IF ~HasMarker(lines[i]) THEN DiagnoseFrom(i + 1, lines, hs, seen)
    ELSE LET r == ApplyPatterns(1, lines[i], hs, seen)
         IN DiagnoseFrom(i + 1, lines, r.hints, r.seen)

\* analyzer.diagnose_logs(log_lines), as one call
DiagnoseLogsResult(lines) ==
    LET hs == DiagnoseFrom(1, lines, <<>>, {})
    IN IF hs = <<>> THEN <<FallbackHint>> ELSE hs

TextLoading == <<"Loading logs from: ...">>
TextAnalyzing == <<"Analyzing...">>
TextNotConfigured ==
    <<"Odoo logfile path ('logfile') is not configured in odoo.conf. Cannot read logs from file.">>
TextUnexpected(exc) == <<"An unexpected error occurred while analyzing logs: ", exc>>

\* wizard lines 277-298: the fields are reset; without a configured log file
\* the action returns, else it calls get_filtered_log_lines
ActionLoadLogsEnter ==
    /\ pc = "wiz_log_call"
    /\ IF ~configured
       THEN /\ log_analysis_status' = "no_log_file"
            /\ log_display_content' = TextNotConfigured
            /\ log_diagnostic_hints' = <<"Configure 'logfile' in odoo.conf to enable this feature.">>
            /\ pc' = "wiz_log_done"
            /\ UNCHANGED <<num_lines, level_filter, keyword_filter>>
       ELSE /\ log_analysis_status' = "not_run"
            /\ log_display_content' = TextLoading
            /\ log_diagnostic_hints' = TextAnalyzing
            /\ num_lines' = IF log_lines_to_fetch > 0 THEN log_lines_to_fetch
                            ELSE DefaultLinesToFetch
            /\ level_filter' = IF log_level_filter # "ALL" THEN log_level_filter
                               ELSE NoneLevel
            /\ keyword_filter' = IF log_keyword_filter \in {NoneKeyword, <<>>}
                                 THEN NoneKeyword ELSE log_keyword_filter
            /\ pc' = "idle"
    /\ UNCHANGED <<configured, fstate, file, buffer_size, lines_found,
                   bytes_read_total, tail_exc, raw_lines, ret_lines, status,
                   escaped>>
    /\ UNCHANGED <<log_lines_to_fetch, log_level_filter, log_keyword_filter>>
    /\ UNCHANGED <<diagVars, reqVars, scanVars, wizVars, instVars, gitVars, callVars>>

\* wizard lines 300-315: the status and the lines returned are stored
ActionLoadLogsStore ==
    /\ pc = "returned"
    /\ log_analysis_status' = status
    /\ IF status = "success"
       THEN /\ log_display_content' =
                  IF ret_lines # <<>> THEN NewlineJoin(ret_lines)
                  ELSE <<"No log entries found (or file is empty).">>
            /\ log_diagnostic_hints' =
                  IF ret_lines # <<>> THEN DiagnoseLogsResult(ret_lines)
                  ELSE <<"Log view is empty.">>
       ELSE IF status = "empty_after_filter"
       THEN /\ log_display_content' = MsgNoMatch
            /\ log_diagnostic_hints' = <<"Try adjusting filters or increasing lines to fetch.">>
       ELSE /\ log_display_content' = NewlineJoin(ret_lines)
            /\ log_diagnostic_hints' = <<"Review the error message above regarding log file access.">>
    /\ pc' = "wiz_log_done"
    /\ UNCHANGED logVars
    /\ UNCHANGED <<log_lines_to_fetch, log_level_filter, log_keyword_filter>>
    /\ UNCHANGED <<diagVars, reqVars, scanVars, wizVars, instVars, gitVars, callVars>>

\* wizard lines 317-321: an exception that left get_filtered_log_lines
ActionLoadLogsExcept ==
    /\ pc = "raised"
    /\ log_display_content' = TextUnexpected(escaped)
    /\ log_diagnostic_hints' = <<"Check Odoo server logs for more details.">>
    /\ log_analysis_status' = "error_reading"
    /\ pc' = "wiz_log_done"
    /\ UNCHANGED logVars
    /\ UNCHANGED <<log_lines_to_fetch, log_level_filter, log_keyword_filter>>
    /\ UNCHANGED <<diagVars, reqVars, scanVars, wizVars, instVars, gitVars, callVars>>

\* ----------------------------------------------------------- specifications
SeqsUpTo(S, n) == UNION {[1..m -> S] : m \in 0..n}

RECURSIVE JoinLines(_)
\* the bytes of a file whose lines are `lines`, each ended by LF
JoinLines(lines) ==
    IF lines = <<>> THEN <<>>
    ELSE Head(lines) \o <<"LF">> \o JoinLines(Tail(lines))

LevelFilters == {"ALL", "DEBUG", "INFO", "WARNING", "ERROR", "CRITICAL", NoneLevel}
KeywordFilters == {NoneKeyword, <<>>, <<"k">>, <<"K">>}
FileStates == {"absent", "unreadable", "ioerror", "ok"}

\* lines of a log: well-formed with and without the keyword, and malformed
FilterLineVocab ==
    {<<"H_INFO", "k">>, <<"H_ERROR", "K">>, <<"H_WARNING", "x">>,
     <<"x">>, <<"K", "x">>}

\* a line whose text after the match is as long as the excerpt of a hint
LongLine ==
    <<"H_ERROR", "bus.Bus unavailable, Bus.Notification unavailable">>
    \o [i \in 1..ExcerptLen |-> "x"]

\* lines given to diagnose_logs
DiagLineVocab ==
    {<<"H_ERROR", "Connection refused">>,
     <<"H_WARNING", "Connection refused", "Permission denied">>,
     <<"H_ERROR", "ImportError: No module named 'foo'">>,
     <<"H_CRITICAL", "x", "ImportError: No module named 'foo'">>,
     <<"H_ERROR", "ImportError: No module named 'bar'",
       "ImportError: No module named 'foo'">>,
     <<"H_INFO", "Connection refused">>,
     <<"Permission denied">>,
     <<"H_ERROR", "x">>,
     <<"WKHTMLTOPDF: ERROR">>,
     LongLine}

\* ---- requirement strings and registries of the requirement checker
RenderOperator(op) ==
    CASE op = "==" -> <<"=", "=">> [] op = ">=" -> <<">", "=">>
      [] op = "<=" -> <<"<", "=">> [] op = "!=" -> <<"!", "=">>
      [] op = "~=" -> <<"~", "=">> [] op = ">" -> <<">">>
      [] op = "<" -> <<"<">> [] op = "===" -> <<"=", "=", "=">>

RECURSIVE RenderClauses(_)
\* the text "op version,op version,..." of a sequence of clauses
RenderClauses(cl) ==
    IF cl = <<>> THEN <<>>
    ELSE RenderOperator(Head(cl).op) \o <<Head(cl).version>>
         \o (IF Len(cl) > 1 THEN <<",">> ELSE <<>>) \o RenderClauses(Tail(cl))

ClauseVocab ==
    [op : {"==", ">=", "<", "!=", "~="}, version : {"1.0", "1.5", "2.0"}]

\* a requirement string written from a name and comparators
RenderSpec(parts) == <<parts.name>> \o RenderClauses(parts.clauses)

WellFormedParts ==
    [wellformed : {TRUE}, name : Names, clauses : SeqsUpTo(ClauseVocab, MaxClauses)]

NoParts == [wellformed |-> FALSE, name |-> "", clauses |-> <<>>]

\* requirement strings that packaging rejects
MalformedSpecs ==
    {<<"libfoo", "=", ">", "1.0">>, <<"LibFoo", ">", "=">>,
     <<"-e", "libfoo">>, <<"lib_bar", "1.0">>, <<"libfoo", "<", "2.0", ",">>}

RegistryStates == {"absent", "error"} \cup InstalledVersions

InitIdleReq ==
    /\ packaging_available = TRUE
    /\ stdlib_metadata = TRUE
    /\ backport_loaded = FALSE
    /\ registry = [n \in {"libfoo", "lib-bar"} |-> "absent"]
    /\ package_spec = <<>>
    /\ spec_parts = NoParts
    /\ check_result = CheckResult(FALSE, Msg("", "", {}), NoRequired)


InitIdleScan ==
    /\ addons_paths = <<>>
    /\ root_idx = 0
    /\ module_requirements = <<>>
    /\ messages = <<>>
    /\ mod_idx = 0
    /\ pkg_idx = 0
    /\ to_install = <<>>
    /\ satisfied = <<>>
    /\ errors = <<>>
    /\ self = "w1"

\* wizard lines 51-62: the defaults of the fields
InitIdleWiz ==
    /\ addon_req_status = [w \in Sessions |-> "not_run"]
    /\ packages_to_install_list = [w \in Sessions |-> <<>>]

InitIdleInst ==
    /\ ipc = [w \in Sessions |-> "ready"]
    /\ packages_specs = [w \in Sessions |-> <<>>]
    /\ spec_idx = [w \in Sessions |-> 0]
    /\ processes = [w \in Sessions |-> <<>>]
    /\ success = [w \in Sessions |-> <<>>]
    /\ failed = [w \in Sessions |-> <<>>]

InitIdleGit ==
    /\ base_git_dir = FALSE
    /\ parent_dir = "exists"
    /\ target_path = "absent"
    /\ git_env = [installed |-> FALSE, remote_ok |-> FALSE, reset_ok |-> FALSE]
    /\ underscore = UnderscoreAtEntry
    /\ git_commands = <<>>
    /\ last_git_status = "not_run"
    /\ last_git_log = ""
    /\ is_git_repo = FALSE
    /\ git_return = NoReturn
    /\ git_exc = "none"

InitIdleCall == entry = "scan"

InitIdleWizLog ==
    /\ log_lines_to_fetch = DefaultLinesToFetch
    /\ log_level_filter = "ALL"
    /\ log_keyword_filter = NoneKeyword
    /\ log_display_content = <<>>
    /\ log_diagnostic_hints = <<>>
    /\ log_analysis_status = "not_run"

InitIdleLog ==
    /\ lines_found = <<>>
    /\ bytes_read_total = 0
    /\ tail_exc = "none"
    /\ raw_lines = <<>>
    /\ ret_lines = <<>>
    /\ status = NoStatus
    /\ escaped = "none"

InitIdleDiag ==
    /\ log_lines = <<>>
    /\ line_idx = 0
    /\ hints = <<>>
    /\ unique_hints = {}

\* a call of get_filtered_log_lines on files of arbitrary bytes, read in
\* chunks of every size, with no filter
InitTail ==
    /\ pc = "idle"
    /\ configured \in BOOLEAN
    /\ fstate \in FileStates
    /\ file \in SeqsUpTo(TailBytes, MaxLen)
    /\ buffer_size \in 1..MaxChunk
    /\ num_lines \in 0..MaxN
    /\ (~configured \/ fstate # "ok") =>
           (file = <<>> /\ buffer_size = 1 /\ num_lines = 1)
    /\ level_filter = "ALL"
    /\ keyword_filter = NoneKeyword
    /\ InitIdleLog
    /\ InitIdleDiag
    /\ InitIdleReq
    /\ InitIdleScan
    /\ InitIdleWiz
    /\ InitIdleInst
    /\ InitIdleGit
    /\ InitIdleCall
    /\ InitIdleWizLog

\* a call of get_filtered_log_lines with every filter, on logs of whole
\* lines that fit into one chunk
InitFilter ==
    /\ pc = "idle"
    /\ configured \in BOOLEAN
    /\ fstate \in FileStates
    /\ \E ls \in SeqsUpTo(FilterLineVocab, MaxLines) : file = JoinLines(ls)
    /\ buffer_size = Len(file) + 1
    /\ num_lines \in 1..MaxN
    /\ level_filter \in LevelFilters
    /\ keyword_filter \in KeywordFilters
    /\ (~configured \/ fstate # "ok") => (file = <<>> /\ num_lines = 1)
    /\ InitIdleLog
    /\ InitIdleDiag
    /\ InitIdleReq
    /\ InitIdleScan
    /\ InitIdleWiz
    /\ InitIdleInst
    /\ InitIdleGit
    /\ InitIdleCall
    /\ InitIdleWizLog

\* a log of six lines: the second and the fifth of level ERROR, the fourth
\* not in Odoo's format
SixLineLog ==
    <<<<"H_INFO", "k">>, <<"H_ERROR", "K">>, <<"H_INFO", "k">>,
      <<"x">>, <<"H_ERROR", "K">>, <<"H_WARNING", "x">>>>

PipelineLogs ==
    {<<>>, <<<<"H_ERROR", "K">>>>,
     <<<<"H_INFO", "k">>, <<"H_ERROR", "K">>>>,
     <<<<"H_ERROR", "K">>, <<"x">>, <<"K", "x">>>>,
     SixLineLog}

\* a call of get_filtered_log_lines with every filter, on logs of whole
\* lines read in chunks of every size
InitPipeline ==
    /\ pc = "idle"
    /\ configured \in BOOLEAN
    /\ fstate \in FileStates
    /\ \E ls \in PipelineLogs : file = JoinLines(ls)
    /\ buffer_size \in 1..(Len(file) + 1)
    /\ num_lines \in 0..(MaxN + 1)
    /\ level_filter \in LevelFilters
    /\ keyword_filter \in KeywordFilters
    /\ (~configured \/ fstate # "ok") =>
           (file = <<>> /\ buffer_size = 1 /\ num_lines = 1)
    /\ InitIdleLog
    /\ InitIdleDiag
    /\ InitIdleReq
    /\ InitIdleScan
    /\ InitIdleWiz
    /\ InitIdleInst
    /\ InitIdleGit
    /\ InitIdleCall
    /\ InitIdleWizLog

\* a call of diagnose_logs
InitDiag ==
    /\ pc = "diag_call"
    /\ log_lines \in SeqsUpTo(DiagLineVocab, MaxDiagLines)
    /\ line_idx = 0
    /\ hints = <<>>
    /\ unique_hints = {}
    /\ configured = FALSE
    /\ fstate = "absent"
    /\ file = <<>>
    /\ buffer_size = 1
    /\ num_lines = 1
    /\ level_filter = "ALL"
    /\ keyword_filter = NoneKeyword
    /\ InitIdleLog
    /\ InitIdleReq
    /\ InitIdleScan
    /\ InitIdleWiz
    /\ InitIdleInst
    /\ InitIdleGit
    /\ InitIdleCall
    /\ InitIdleWizLog

\* a call of _check_package_installed
InitReq ==
    /\ pc = "check_call"
    /\ packaging_available \in BOOLEAN
    /\ stdlib_metadata \in BOOLEAN
    /\ backport_loaded \in BOOLEAN
    /\ registry \in [{"libfoo", "lib-bar"} -> RegistryStates]
    /\ registry["lib-bar"] \in {"absent", "1.0"}
    /\ \/ /\ spec_parts \in WellFormedParts
          /\ package_spec = RenderSpec(spec_parts)
       \/ /\ spec_parts = NoParts
          /\ package_spec \in MalformedSpecs
    /\ check_result = CheckResult(FALSE, Msg("", "", {}), NoRequired)
    /\ configured = FALSE
    /\ fstate = "absent"
    /\ file = <<>>
    /\ buffer_size = 1
    /\ num_lines = 1
    /\ level_filter = "ALL"
    /\ keyword_filter = NoneKeyword
    /\ InitIdleLog
    /\ InitIdleDiag
    /\ InitIdleScan
    /\ InitIdleWiz
    /\ InitIdleInst
    /\ InitIdleGit
    /\ InitIdleCall
    /\ InitIdleWizLog

\* ---- addons roots on disk
L_foo == <<"libfoo", ">", "=", "1.0", ",", "<", "2.0">>
L_bar == <<"lib_bar">>
L_comment == <<"#", "x">>
L_padded == <<" ", "lib_bar", " ">>
L_editable == <<"-e", "libfoo">>

TextFile(chunks) == File(TRUE, TRUE, chunks)

Root(kind, entries) == [kind |-> kind, entries |-> entries]

\* roots that cannot be scanned, and directories holding modules with good,
\* unreadable, undecodable, partly decodable, comment-only and missing
\* requirements files, a directory that is no module, and module names that
\* occur in more than one root
RootVocab ==
    {Root("missing", <<>>), Root("notdir", <<>>), Root("unlistable", <<>>),
     Root("dir", <<>>),
     Root("dir", <<Entry("m1", TRUE, TextFile(<<ChunkOf(<<L_foo, L_comment, L_bar>>)>>)),
                   Entry("m2", TRUE, File(TRUE, FALSE, <<>>))>>),
     Root("dir", <<Entry("m3", TRUE, TextFile(<<ChunkOf(<<L_bar>>), BadChunk>>)),
                   Entry("docs", FALSE, TextFile(<<ChunkOf(<<L_bar>>)>>)),
                   Entry("m2", TRUE, TextFile(<<ChunkOf(<<L_padded, <<>>, L_editable>>)>>))>>),
     Root("dir", <<Entry("m2", TRUE, TextFile(<<BadChunk>>)),
                   Entry("m6", TRUE, TextFile(<<ChunkOf(<<L_bar>>), ChunkOf(<<L_foo>>)>>)),
                   Entry("m4", TRUE, File(FALSE, FALSE, <<>>))>>),
     Root("dir", <<Entry("m5", TRUE, TextFile(<<ChunkOf(<<L_comment>>)>>)),
                   Entry("m1", TRUE, TextFile(<<ChunkOf(<<L_bar>>)>>))>>)}

ScanRegistries ==
    {[n \in {"libfoo", "lib-bar"} |-> IF n = "libfoo" THEN "1.5" ELSE "absent"],
     [n \in {"libfoo", "lib-bar"} |-> IF n = "libfoo" THEN "2.0" ELSE "error"],
     [n \in {"libfoo", "lib-bar"} |-> IF n = "libfoo" THEN "absent" ELSE "1.0"]}

\* a wizard scan action on every list of roots
InitScan ==
    /\ pc = "scan_call"
    /\ addons_paths \in SeqsUpTo(RootVocab, MaxRoots)
    /\ root_idx = 0
    /\ module_requirements = <<>>
    /\ messages = <<>>
    /\ mod_idx = 0
    /\ pkg_idx = 0
    /\ to_install = <<>>
    /\ satisfied = <<>>
    /\ errors = <<>>
    /\ self \in Sessions
    /\ InitIdleWiz
    /\ InitIdleInst
    /\ packaging_available \in BOOLEAN
    /\ stdlib_metadata = TRUE
    /\ backport_loaded \in BOOLEAN
    /\ registry \in ScanRegistries
    /\ package_spec = <<>>
    /\ spec_parts = NoParts
    /\ check_result = CheckResult(FALSE, Msg("", "", {}), NoRequired)
    /\ configured = FALSE
    /\ fstate = "absent"
    /\ file = <<>>
    /\ buffer_size = 1
    /\ num_lines = 1
    /\ level_filter = "ALL"
    /\ keyword_filter = NoneKeyword
    /\ InitIdleLog
    /\ InitIdleDiag
    /\ InitIdleGit
    /\ entry \in {"scan", "run_all"}
    /\ InitIdleWizLog

\* ---- lists of specs left by a scan or by an earlier install action
L_pinned == <<"libfoo", "=", "=", "2.0">>

InstallSpecVocab == {L_bar, L_pinned}

InstallLists == {Join(ls) : ls \in SeqsUpTo(InstallSpecVocab, MaxSpecs)}

InitNoCall ==
    /\ pc = "idle"
    /\ configured = FALSE
    /\ fstate = "absent"
    /\ file = <<>>
    /\ buffer_size = 1
    /\ num_lines = 1
    /\ level_filter = "ALL"
    /\ keyword_filter = NoneKeyword
    /\ InitIdleLog
    /\ InitIdleDiag
    /\ InitIdleReq
    /\ InitIdleScan

\* wizard lines 237-241: the status a scan leaves with such a list
StatusOfList(text) == IF text = <<>> THEN "scanned_ok" ELSE "scanned_issues"

\* the install action on one wizard record holding any list; the other
\* record has nothing to install
InitInstall ==
    /\ InitNoCall
    /\ InitIdleInst
    /\ packages_to_install_list \in [Sessions -> InstallLists]
    /\ packages_to_install_list["w2"] = <<>>
    /\ addon_req_status =
          [w \in Sessions |-> StatusOfList(packages_to_install_list[w])]
    /\ InitIdleGit
    /\ InitIdleCall
    /\ InitIdleWizLog

\* the install action on two wizard records at the same time
InitInstallTwo ==
    /\ InitNoCall
    /\ InitIdleInst
    /\ packages_to_install_list \in [Sessions -> {L_bar, Join(<<L_pinned, L_bar>>)}]
    /\ addon_req_status =
          [w \in Sessions |-> StatusOfList(packages_to_install_list[w])]
    /\ InitIdleGit
    /\ InitIdleCall
    /\ InitIdleWizLog

NextLog ==
    \/ GetFilteredLogLinesEnter
    \/ EfficientTailEnter
    \/ EfficientTailLoop
    \/ EfficientTailReturn
    \/ GetFilteredLogLinesExcept
    \/ GetFilteredLogLinesFilter

NextDiag ==
    \/ DiagnoseLogsEnter
    \/ DiagnoseLogsLine
    \/ DiagnoseLogsReturn

NextReq == CheckPackageInstalled

NextScan ==
    \/ ActionScanEnter
    \/ FindRequirementsEnter
    \/ FindRequirementsRoot
    \/ FindRequirementsReturn
    \/ AnalyzeDependenciesEnter
    \/ AnalyzeDependenciesPackage
    \/ AnalyzeDependenciesReturn
    \/ ActionScanStore
    \/ ActionScanExcept
    \/ ActionRunAllScansEnter
    \/ ActionRunAllScansStore
    \/ ActionRunAllScansExcept

NextInstall ==
    \E w \in Sessions :
        \/ ActionInstallEnter(w)
        \/ InstallPopen(w)
        \/ InstallPopenRaises(w)
        \/ ProcessExits(w)
        \/ InstallCommunicate(w)
        \/ InstallTimeout(w)
        \/ InstallAfterTimeout(w)
        \/ InstallReturn(w)
        \/ ActionInstallStore(w)

\* a call of action_clone_or_pull on one repository record, in every state
\* of the configuration, of the file system and of git
InitGit ==
    /\ pc = "git_call"
    /\ base_git_dir \in BOOLEAN
    /\ parent_dir \in {"exists", "creatable", "uncreatable"}
    /\ target_path \in {"absent", "worktree", "plain"}
    /\ parent_dir # "exists" => target_path = "absent"
    /\ git_env \in [installed : BOOLEAN, remote_ok : BOOLEAN, reset_ok : BOOLEAN]
    /\ underscore = UnderscoreAtEntry
    /\ git_commands = <<>>
    /\ last_git_status \in {"not_run", "success", "error"}
    /\ last_git_log = ""
    /\ is_git_repo = FALSE
    /\ git_return = NoReturn
    /\ git_exc = "none"
    /\ configured = FALSE
    /\ fstate = "absent"
    /\ file = <<>>
    /\ buffer_size = 1
    /\ num_lines = 1
    /\ level_filter = "ALL"
    /\ keyword_filter = NoneKeyword
    /\ InitIdleLog
    /\ InitIdleDiag
    /\ InitIdleReq
    /\ InitIdleScan
    /\ InitIdleWiz
    /\ InitIdleInst
    /\ InitIdleCall
    /\ InitIdleWizLog

NextGit ==
    \/ ActionCloneOrPullEnter
    \/ ActionCloneOrPullRevParse
    \/ ActionCloneOrPullPull
    \/ ActionCloneOrPullClone

\* a call of action_load_and_analyze_logs, with every value of the three
\* fields the user sets, on logs of whole lines read in chunks of every size
InitWizLog ==
    /\ pc = "wiz_log_call"
    /\ configured \in BOOLEAN
    /\ fstate \in FileStates
    /\ \E ls \in PipelineLogs : file = JoinLines(ls)
    /\ buffer_size \in 1..(Len(file) + 1)
    /\ (~configured \/ fstate # "ok") => (file = <<>> /\ buffer_size = 1)
    /\ log_lines_to_fetch \in -1..MaxN
    /\ log_level_filter \in LevelFilters \ {NoneLevel}
    /\ log_keyword_filter \in KeywordFilters
    /\ log_display_content = <<>>
    /\ log_diagnostic_hints = <<>>
    /\ log_analysis_status \in {"not_run", "success"}
    /\ num_lines = 1
    /\ level_filter = "ALL"
    /\ keyword_filter = NoneKeyword
    /\ InitIdleLog
    /\ InitIdleDiag
    /\ InitIdleReq
    /\ InitIdleScan
    /\ InitIdleWiz
    /\ InitIdleInst
    /\ InitIdleGit
    /\ InitIdleCall

NextWizLog ==
    \/ ActionLoadLogsEnter
    \/ NextLog
    \/ ActionLoadLogsStore
    \/ ActionLoadLogsExcept

Init == InitTail \/ InitFilter \/ InitPipeline \/ InitDiag \/ InitReq \/ InitScan
           \/ InitInstall \/ InitInstallTwo \/ InitGit \/ InitWizLog
Next == NextLog \/ NextDiag \/ NextReq \/ NextScan \/ NextInstall \/ NextGit
           \/ NextWizLog
Spec == Init /\ [][Next]_vars

SpecTail == InitTail /\ [][NextLog]_vars
SpecFilter == InitFilter /\ [][NextLog]_vars
SpecPipeline == InitPipeline /\ [][NextLog]_vars
SpecDiag == InitDiag /\ [][NextDiag]_vars
SpecReq == InitReq /\ [][NextReq]_vars
SpecScan == InitScan /\ [][NextScan]_vars
SpecInstall == InitInstall /\ [][NextInstall]_vars
SpecInstallTwo == InitInstallTwo /\ [][NextInstall]_vars
SpecGit == InitGit /\ [][NextGit]_vars
SpecWizLog == InitWizLog /\ [][NextWizLog]_vars

\* ------------------------------------------------------------------ claims
\* the lines of the whole file, decoded and split at its line terminators
FileLines == splitlines(Decode(file))

RECURSIVE IsSubsequence(_, _)
\* the elements of a occur in b, in the same relative order
IsSubsequence(a, b) ==
    IF a = <<>> THEN TRUE
    ELSE IF b = <<>> THEN FALSE
    ELSE IF Head(a) = Head(b) THEN IsSubsequence(Tail(a), Tail(b))
    ELSE IsSubsequence(a, Tail(b))

\* the last min(n, Len(lst)) elements of lst
LastMin(lst, n) == SubSeq(lst, Len(lst) - Min(n, Len(lst)) + 1, Len(lst))

\* C1: for every file and every N >= 0, _efficient_tail returns at most N
\* lines, and they are lines of the file in their original relative order.
C1_AtMostNInOrder ==
    pc = "tail_returned" =>
        /\ Len(raw_lines) <= num_lines
        /\ IsSubsequence(raw_lines, FileLines)

\* C2: for every file, chunk size and N >= 1, _efficient_tail returns the
\* last min(N, number of lines) lines of the file: a line spanning a chunk
\* boundary is reassembled and two lines are never joined.
C2_TailIsLastLines ==
    (pc = "tail_returned" /\ num_lines >= 1) =>
        raw_lines = LastMin(FileLines, num_lines)

\* C3: when the file has at most N lines, _efficient_tail(N) returns every
\* line of the file, unmodified and in order, and raises nothing.
C3_ShortFileReturnedWhole ==
    (configured /\ fstate = "ok" /\ num_lines >= 1 /\ Len(FileLines) <= num_lines) =>
        /\ pc # "tail_raised"
        /\ pc = "tail_returned" => raw_lines = FileLines

KeywordAbsent == keyword_filter = NoneKeyword \/ keyword_filter = <<>>
ReadableNonEmpty == configured /\ fstate = "ok" /\ file # <<>>

\* C4: with level_filter 'ALL' and no keyword, get_filtered_log_lines
\* returns exactly the tailed lines, in order, with status 'success', for
\* every non-empty readable log.
C4_NoFilterIsIdentity ==
    (ReadableNonEmpty /\ level_filter = "ALL" /\ KeywordAbsent) =>
        /\ pc # "raised"
        /\ pc = "returned" =>
              /\ raw_lines # <<>>
              /\ ret_lines = raw_lines
              /\ status = "success"

C4_Witness ==
    /\ pc = "returned"
    /\ ReadableNonEmpty /\ level_filter = "ALL" /\ KeywordAbsent
    /\ Len(raw_lines) >= 2
    /\ \E i \in 1..Len(raw_lines) : ~RegexMatches(raw_lines[i])
    /\ \E i \in 1..Len(raw_lines) : RegexMatches(raw_lines[i])
    /\ ret_lines = raw_lines

\* the line is among the lines get_filtered_log_lines returned as log lines
Returned(line) ==
    /\ status = "success"
    /\ \E j \in 1..Len(ret_lines) : ret_lines[j] = line

BroadLevels == {"ALL", "INFO", "DEBUG"}
StrictLevels == {"WARNING", "ERROR", "CRITICAL"}

\* C5: a line that passes the keyword test but does not match the log
\* grammar is dropped under WARNING, ERROR and CRITICAL, and is returned
\* only under a broad level filter (ALL, INFO, DEBUG), under which it is kept.
C5_UnparsedOnlyUnderBroadFilter ==
    (pc = "returned" /\ tail_exc = "none" /\ raw_lines # <<>>) =>
        \A i \in 1..Len(raw_lines) :
            (KeywordPasses(raw_lines[i], keyword_filter) /\ ~RegexMatches(raw_lines[i]))
            => /\ level_filter \in StrictLevels => ~Returned(raw_lines[i])
               /\ Returned(raw_lines[i]) <=> level_filter \in BroadLevels

C5_Witness ==
    /\ pc = "returned" /\ tail_exc = "none"
    /\ level_filter = "ERROR"
    /\ keyword_filter = <<"k">>
    /\ status = "success"
    /\ \E i \in 1..Len(raw_lines) :
          /\ KeywordPasses(raw_lines[i], keyword_filter)
          /\ ~RegexMatches(raw_lines[i])
          /\ ~Returned(raw_lines[i])

Statuses == {"success", "no_log_file", "error_reading", "empty_after_filter"}

\* C6: for every num_lines, level_filter (None included), keyword_filter and
\* state of the log file, get_filtered_log_lines returns a (lines, status)
\* pair with one of the four statuses and lets no exception escape.
C6_AlwaysReturnsAPair ==
    /\ escaped = "none"
    /\ pc # "raised"
    /\ pc = "returned" => status \in Statuses

Failures == {"FileNotFoundError", "PermissionError", "OSError"}

\* C7 as stated: the status get_filtered_log_lines returns tells the three
\* failure signals apart, so no other failure has the status of the one that
\* happened.
C7_StatusTellsFailuresApart ==
    (pc = "returned" /\ tail_exc # "none") =>
        \A e \in Failures : StatusOfException(e) = status => e = tail_exc

\* C7 amended: _efficient_tail raises a distinct exception for a missing
\* file, an unreadable file and any other I/O failure (re-raised, not
\* swallowed); the status tells a missing file or unconfigured path
\* (no_log_file) from the other two, which share error_reading and differ
\* in the message returned.
C7_FailureSignals ==
    /\ (configured /\ fstate # "ok" /\ pc \notin {"idle", "tail_enter"}) =>
          /\ pc \in {"tail_raised", "returned"}
          /\ tail_exc = (CASE fstate = "absent" -> "FileNotFoundError"
                           [] fstate = "unreadable" -> "PermissionError"
                           [] fstate = "ioerror" -> "OSError")
    /\ (pc = "returned" /\ (tail_exc # "none" \/ ~configured)) =>
          /\ status = "no_log_file" <=> (~configured \/ tail_exc = "FileNotFoundError")
          /\ status = "error_reading" <=> tail_exc \in {"PermissionError", "OSError"}
          /\ ret_lines = <<MsgPermission>> <=> tail_exc = "PermissionError"
          /\ ret_lines = <<MsgReadError \o <<"OSError">> >> <=> tail_exc = "OSError"

C7_Witness ==
    /\ pc = "returned"
    /\ tail_exc = "PermissionError"
    /\ status = "error_reading"
    /\ ret_lines = <<MsgPermission>>

\* C8: no two hints emitted by one diagnose_logs call carry the same text.
C8_NoDuplicateHintText ==
    \A i, j \in 1..Len(hints) : hints[i].text = hints[j].text => i = j

\* two different candidate lines resolve to the same derived hint text, and
\* that text is the only hint
C8_Witness ==
    /\ pc = "diag_returned"
    /\ \E i, j \in 1..Len(log_lines) :
          /\ log_lines[i] # log_lines[j]
          /\ HasMarker(log_lines[i]) /\ HasMarker(log_lines[j])
          /\ Search(ImportErrorRule, log_lines[i]) # 0
          /\ Search(ImportErrorRule, log_lines[j]) # 0
          /\ HintText(ImportErrorRule, log_lines[i]) = HintText(ImportErrorRule, log_lines[j])
    /\ Len(hints) = 1

AnyCandidateMatch ==
    \E i \in 1..Len(log_lines) : \E k \in 1..NumPatterns :
        HasMarker(log_lines[i]) /\ Search(k, log_lines[i]) # 0

\* C9: diagnose_logs returns a non-empty list; it is the single fallback
\* hint exactly when no pattern matched a candidate line, and the fallback
\* never comes with a rule-derived hint.
C9_FallbackIffNoMatch ==
    pc = "diag_returned" =>
        /\ hints # <<>>
        /\ hints = <<FallbackHint>> <=> ~AnyCandidateMatch
        /\ \A i \in 1..Len(hints) : hints[i].kind = "fallback" => Len(hints) = 1

\* the fallback is returned although a line without severity marker matches
C9_Witness ==
    /\ pc = "diag_returned"
    /\ hints = <<FallbackHint>>
    /\ Len(log_lines) >= 2
    /\ \E i \in 1..Len(log_lines) : \E k \in 1..NumPatterns :
          ~HasMarker(log_lines[i]) /\ Search(k, log_lines[i]) # 0

\* C10: in full mode, a well-formed requirement is classified (the call
\* returns): an absent package is
\* Missing; an installed one with no constraint is Satisfied with the
\* installed version; an installed one with a constraint is Satisfied exactly
\* when its version satisfies every comparator, and otherwise VersionConflict
\* with the installed and the required value.
C10_FullModeClassification ==
    (pc # "check_call" /\ packaging_available /\ spec_parts.wellformed) =>
        LET dist == registry[canonicalize_name(spec_parts.name)]
            clauses == {spec_parts.clauses[i] : i \in 1..Len(spec_parts.clauses)}
            v == NormalizeVersion(dist)
            r == check_result
        IN /\ pc = "check_returned"
           /\ dist = "absent" =>
                 ~r.is_installed /\ r.status_msg.kind = "Not installed"
           /\ (dist \in InstalledVersions /\ clauses = {}) =>
                 r.is_installed /\ r.status_msg = Msg("Installed", v, {})
           /\ (dist \in InstalledVersions /\ clauses # {}) =>
                 /\ r.is_installed <=> \A c \in clauses : ClauseHolds(v, c)
                 /\ r.is_installed => r.status_msg = Msg("Installed", v, {})
                 /\ ~r.is_installed =>
                       r.status_msg = Msg("Version conflict", v, clauses)

RECURSIVE Flatten(_)
\* the requirement strings of a dict of modules, module by module, each with
\* its module
Flatten(d) ==
    IF d = <<>> THEN <<>>
    ELSE [i \in 1..Len(Head(d).packages) |->
             [module |-> Head(d).module_name, package_spec |-> Head(d).packages[i]]]
         \o Flatten(Tail(d))

Count(x, seq) == Cardinality({i \in 1..Len(seq) : seq[i] = x})

Filed(items) == [i \in 1..Len(items) |->
                   [module |-> items[i].module, package_spec |-> items[i].package_spec]]

AnalysisOver == pc \in {"analyze_returned", "analyze_raised", "scan_done"}

\* C11: once analyze_dependencies is over it has returned its three lists,
\* and every requirement string of every scanned module is in exactly one of
\* them: each (module, requirement) occurs in 'satisfied', 'to_install' and
\* 'errors' together as often as it was scanned; 'to_install' holds Missing
\* and VersionConflict results and 'errors' the check errors.
C11_EveryRequirementInOneList ==
    AnalysisOver =>
        /\ pc # "analyze_raised"
        /\ \A x \in {Flatten(module_requirements)[i] :
                         i \in 1..Len(Flatten(module_requirements))} :
              Count(x, Filed(satisfied)) + Count(x, Filed(to_install))
                  + Count(x, Filed(errors))
              = Count(x, Flatten(module_requirements))
        /\ Len(satisfied) + Len(to_install) + Len(errors)
              = Len(Flatten(module_requirements))
        /\ \A i \in 1..Len(to_install) :
              to_install[i].text.kind \in {"Not installed", "Version conflict"}
        /\ \A i \in 1..Len(errors) :
              errors[i].text.kind \in {"Error checking", "Error checking package"}
        /\ \A i \in 1..Len(satisfied) : satisfied[i].text.kind = "Installed"

\* the scanned requirement strings that are Missing or VersionConflict, in
\* module-scan order, then declaration order
RECURSIVE MissingOrConflicting(_)
MissingOrConflicting(scanned) ==
    IF scanned = <<>> THEN <<>>
    ELSE (IF ListOf(CheckPackageInstalledResult(Head(scanned).package_spec)) = "to_install"
          THEN <<Head(scanned).package_spec>> ELSE <<>>)
         \o MissingOrConflicting(Tail(scanned))

\* C12: after a scan action, 'to_install' and the wizard's
\* packages_to_install_list hold exactly the scanned requirement strings
\* that are Missing or VersionConflict, in module-scan order then declaration
\* order, joined by the separator, and no Satisfied or CheckError one.
C12_OnlyMissingOrConflictForwarded ==
    pc = "scan_done" =>
        /\ SpecsOf(to_install) = MissingOrConflicting(Flatten(module_requirements))
        /\ packages_to_install_list[self]
              = Join(MissingOrConflicting(Flatten(module_requirements)))

FindOver == pc \notin {"scan_call", "find_call", "find_loop"}

\* the module directories with a requirements file: root index, entry index
ModuleEntries ==
    {ij \in UNION {{<<i, j>> : j \in 1..Len(addons_paths[i].entries)} :
                      i \in 1..Len(addons_paths)} :
        /\ addons_paths[ij[1]].kind = "dir"
        /\ addons_paths[ij[1]].entries[ij[2]].is_module
        /\ addons_paths[ij[1]].entries[ij[2]].file.exists}

EntryAt(ij) == addons_paths[ij[1]].entries[ij[2]]

\* the file cannot be opened, or some part of it does not decode
FileIsBad(f) == ~f.readable \/ \E k \in 1..Len(f.chunks) : ~f.chunks[k].decodable

NameIsUnique(ij) ==
    \A other \in ModuleEntries : EntryAt(other).name = EntryAt(ij).name => other = ij

RECURSIVE AllPackages(_)
\* the requirement strings of a file that decodes
AllPackages(chunks) ==
    IF chunks = <<>> THEN <<>>
    ELSE LinePackages(Head(chunks).lines) \o AllPackages(Tail(chunks))

Logged(msg) == \E k \in 1..Len(messages) : messages[k] = msg

\* C17: when find_requirements is over, a module whose requirements file
\* cannot be read or decoded has an error diagnostic and no packages (it is
\* not reported), no other module has an error diagnostic, and every other
\* module with requirements is reported with all its requirement strings.
C17_BadFileGivesEmptyList ==
    FindOver =>
        \A ij \in ModuleEntries :
            LET e == EntryAt(ij)
            IN /\ FileIsBad(e.file) =>
                     /\ Logged(Message("error", ij[1], e.name))
                     /\ NameIsUnique(ij) => e.name \notin DictKeys(module_requirements)
               /\ ~FileIsBad(e.file) =>
                     /\ ~Logged(Message("error", ij[1], e.name))
                     /\ (NameIsUnique(ij) /\ AllPackages(e.file.chunks) # <<>>) =>
                           \E k \in 1..Len(module_requirements) :
                               module_requirements[k] =
                                   [module_name |-> e.name,
                                    packages |-> AllPackages(e.file.chunks)]

IsDir(root) == root.kind = "dir"

RECURSIVE ScanAll(_, _, _)
\* find_requirements over a list of roots, from the i-th on
ScanAll(roots, i, st) ==
    IF i > Len(roots) THEN st
    ELSE ScanAll(roots, i + 1, ScanRoot(i, roots[i], st))

\* C18: when find_requirements is over, every root that is missing, no
\* directory or not listable has a diagnostic, every root has been visited,
\* and the modules found are those found when the list holds the readable
\* roots only.
C18_BadRootsAreSkipped ==
    FindOver =>
        /\ \A i \in 1..Len(addons_paths) :
              ~IsDir(addons_paths[i]) =>
                  Logged(Message("warning", i, "")) \/ Logged(Message("error", i, ""))
        /\ addons_paths # <<>> => root_idx = Len(addons_paths) + 1
        /\ module_requirements
              = ScanAll(SelectSeq(addons_paths, IsDir), 1,
                        [dict |-> <<>>, messages |-> <<>>]).dict

\* an unlistable root before a directory whose modules are found
C18_Witness ==
    /\ pc = "find_returned"
    /\ Len(addons_paths) = 2
    /\ addons_paths[1].kind = "unlistable"
    /\ IsDir(addons_paths[2])
    /\ Len(module_requirements) >= 2

Running(w) == {i \in 1..Len(processes[w]) : processes[w][i].state = "running"}

\* C13: in every run of install_packages the processes started so far are
\* for the first specs of the input, one each and in input order; at most
\* one of them is running, it is the last one started, and none is running
\* when the loop starts the next one; when the call returns every spec of
\* the input has had its process.
C13_OneAtATimeInOrder ==
    \A w \in Sessions :
        /\ Len(processes[w]) <= Len(packages_specs[w])
        /\ SpecsOf(processes[w]) = SubSeq(packages_specs[w], 1, Len(processes[w]))
        /\ Cardinality(Running(w)) <= 1
        /\ Running(w) \subseteq {Len(processes[w])}
        /\ ipc[w] \in {"loop", "returned", "done"} => Running(w) = {}
        /\ ipc[w] \in {"returned", "done"} =>
              Len(processes[w]) = Len(packages_specs[w])

\* the second process runs after the first was killed
C13_Witness ==
    /\ ipc["w1"] = "communicate"
    /\ Len(processes["w1"]) = 2
    /\ processes["w1"][1].state = "killed"
    /\ processes["w1"][2].state = "running"

\* the attempts whose outcome has been filed
FiledAttempts(w) ==
    {i \in 1..Len(processes[w]) : i < Len(processes[w]) \/ ipc[w] # "communicate"}

\* how an attempt ended
EndOf(p) ==
    IF p.state = "not_started" THEN "exception"
    ELSE IF p.timed_out THEN "timeout"
    ELSE IF p.returncode = "0" THEN "exit 0"
    ELSE "exit non-zero"

\* the diagnostic the claim gives to a failed attempt
DiagnosticOf(p) ==
    CASE EndOf(p) = "exception" -> ExceptionText
      [] EndOf(p) = "timeout" -> TimeoutText
      [] EndOf(p) = "exit non-zero" ->
            FailText("PIP Return Code", p.returncode, p.stdout, p.stderr)

FailedAttempts(w) == {i \in FiledAttempts(w) : EndOf(processes[w][i]) # "exit 0"}

IsSuccess(p) == EndOf(p) = "exit 0"

\* C14: in every run of install_packages, 'success' holds the specs of the
\* attempts that ended with exit code 0, in order; 'failed' has a key for
\* exactly the specs with an attempt that ended otherwise, and its text is
\* that of the spec's latest such attempt: the exit code with stdout and
\* stderr, the timeout text, or the text of the exception.
C14_OutcomeFollowsProcessEnd ==
    \A w \in Sessions :
        /\ success[w] = SpecsOf(SelectSeq(
                 SubSeq(processes[w], 1, Cardinality(FiledAttempts(w))), IsSuccess))
        /\ FailedKeys(failed[w])
              = {processes[w][i].package_spec : i \in FailedAttempts(w)}
        /\ \A k \in 1..Len(failed[w]) :
              \E i \in FailedAttempts(w) :
                  /\ processes[w][i].package_spec = failed[w][k].package_spec
                  /\ \A j \in FailedAttempts(w) :
                        processes[w][j].package_spec = failed[w][k].package_spec
                            => j <= i
                  /\ failed[w][k].text = DiagnosticOf(processes[w][i])

\* a non-zero exit code followed by a success
C14_Witness ==
    /\ ipc["w1"] = "returned"
    /\ packages_specs["w1"] = <<L_bar, L_pinned>>
    /\ processes["w1"][1].returncode = "2" /\ ~processes["w1"][1].timed_out
    /\ processes["w1"][2].returncode = "0" /\ ~processes["w1"][2].timed_out
    /\ success["w1"] = <<L_pinned>>
    /\ failed["w1"] = <<[package_spec |-> L_bar,
                         text |-> FailText("PIP Return Code", "2", "Collecting",
                                           "Invalid requirement")]>>

\* C15: in every run of install_packages, a process on which communicate()
\* timed out is no longer running once the handler is through, its spec has
\* the timeout failure (unless a later attempt for the same spec failed
\* otherwise), and the loop goes on: when the call returns every spec has
\* been attempted and no process of the call is running.
C15_TimeoutKillsAndContinues ==
    \A w \in Sessions :
        /\ \A i \in 1..Len(processes[w]) :
              processes[w][i].timed_out =>
                  /\ (i < Len(processes[w]) \/ ipc[w] # "timeout") =>
                        processes[w][i].state \in {"killed", "exited"}
                  /\ processes[w][i].package_spec \in FailedKeys(failed[w])
                  /\ (\A j \in FailedAttempts(w) :
                         processes[w][j].package_spec = processes[w][i].package_spec
                             => j <= i) =>
                        \E k \in 1..Len(failed[w]) :
                            failed[w][k] = [package_spec |-> processes[w][i].package_spec,
                                            text |-> TimeoutText]
        /\ ipc[w] \in {"returned", "done"} =>
              /\ Len(processes[w]) = Len(packages_specs[w])
              /\ \A i \in 1..Len(processes[w]) : processes[w][i].state # "running"

\* the batch [A, B]: A succeeds, B never returns and is killed
C15_Witness ==
    /\ ipc["w1"] = "returned"
    /\ packages_specs["w1"] = <<L_pinned, L_bar>>
    /\ processes["w1"][1].returncode = "0" /\ ~processes["w1"][1].timed_out
    /\ processes["w1"][2].state = "killed" /\ processes["w1"][2].timed_out
    /\ success["w1"] = <<L_pinned>>
    /\ failed["w1"] = <<[package_spec |-> L_bar, text |-> TimeoutText]>>

Stored(w) ==
    ipc[w] = "done" /\ addon_req_status[w] \in {"install_done_ok", "install_done_errors"}

\* C16 as claimed: within one run a spec that failed has no later process,
\* and after the install action the stored list is the failed specs.
C16_FailedSpecNotInvokedAgain ==
    \A w \in Sessions :
        /\ \A i \in FailedAttempts(w) : \A j \in 1..Len(processes[w]) :
              j > i => processes[w][j].package_spec # processes[w][i].package_spec
        /\ Stored(w) => SplitSpecs(packages_to_install_list[w]) = SpecsOf(failed[w])

RECURSIVE FirstFailures(_, _)
\* the specs of the failed attempts among ps, each once, in the order of
\* their first failure
FirstFailures(ps, seen) ==
    IF ps = <<>> THEN <<>>
    ELSE IF ~IsSuccess(Head(ps)) /\ Head(ps).package_spec \notin seen
    THEN <<Head(ps).package_spec>>
         \o FirstFailures(Tail(ps), seen \cup {Head(ps).package_spec})
    ELSE FirstFailures(Tail(ps), seen)

\* C16, amended: within one run every entry of the input has at most one
\* process, the k-th process being for the k-th entry (a spec listed twice is
\* invoked twice, whatever its first outcome, and no entry is tried again);
\* after the install action the stored list is the specs that failed, each
\* once, in the order of their first failure, the status tells whether there
\* are any, and nothing of the run is running.
C16_NoRetryPerEntry ==
    \A w \in Sessions :
        /\ Len(processes[w]) <= Len(packages_specs[w])
        /\ \A k \in 1..Len(processes[w]) :
              processes[w][k].package_spec = packages_specs[w][k]
        /\ Stored(w) =>
              /\ packages_to_install_list[w] = Join(FirstFailures(processes[w], {}))
              /\ addon_req_status[w] = "install_done_ok"
                    <=> FirstFailures(processes[w], {}) = <<>>
              /\ Running(w) = {}

\* a spec listed twice fails, is invoked for its second entry, and is kept once
C16_Witness ==
    /\ Stored("w1")
    /\ packages_specs["w1"] = <<L_bar, L_bar>>
    /\ processes["w1"][1].returncode = "1"
    /\ processes["w1"][2].returncode = "0"
    /\ packages_to_install_list["w1"] = L_bar

\* C19: in degraded mode (packaging unavailable), for a well-formed
\* requirement, _check_package_installed returns a classification that
\* ignores the constraint: Satisfied when the package named before the first
\* comparator is installed, in whatever version, and Missing when it is absent.
C19_DegradedModeNameOnly ==
    (pc # "check_call" /\ ~packaging_available /\ spec_parts.wellformed) =>
        LET dist == registry[canonicalize_name(spec_parts.name)]
            r == check_result
        IN /\ pc = "check_returned"
           /\ dist \in InstalledVersions =>
                 r.is_installed /\ r.status_msg = Msg("Installed", dist, {})
           /\ dist = "absent" =>
                 /\ ~r.is_installed
                 /\ r.status_msg.kind = "Not installed"
                 /\ r.required = Required({}, package_spec)

\* C20: nothing serializes two runs: a wizard record can start its install
\* action, and a run at a spec it has not yet installed can start the
\* package manager, whatever the other record's run is doing.
C20_NothingSerializesRuns ==
    \A w \in Sessions :
        /\ ipc[w] \in {"ready", "done"} => ENABLED ActionInstallEnter(w)
        /\ (ipc[w] = "loop" /\ spec_idx[w] <= Len(packages_specs[w])) =>
              ENABLED InstallPopen(w)

\* both runs have a process of the package manager running
C20_Witness == \A w \in Sessions : Running(w) # {}

\* ---- C21: the tail-then-filter pipeline returns, in the original order,
\* exactly those of the last N lines of the file that pass the level filter
\* and the keyword filter; on the six-line log, tail(3) with level ERROR
\* returns the fifth line only.
C21_PipelineIsFilterOfLastN ==
    (/\ pc \in {"returned", "raised"} /\ ReadableNonEmpty
     /\ num_lines >= 1 /\ level_filter # NoneLevel) =>
        /\ pc = "returned"
        /\ LET wanted == SelectPassing(LastMin(FileLines, num_lines),
                                       level_filter, keyword_filter)
           IN IF wanted = <<>>
              THEN status = "empty_after_filter" /\ ret_lines = <<MsgNoMatch>>
              ELSE status = "success" /\ ret_lines = wanted

\* the same on the six-line log of the claim alone
C21_SixLineExample ==
    (/\ pc \in {"returned", "raised"} /\ configured /\ fstate = "ok"
     /\ file = JoinLines(SixLineLog) /\ num_lines = 3
     /\ level_filter = "ERROR" /\ keyword_filter = NoneKeyword) =>
        /\ pc = "returned"
        /\ status = "success"
        /\ ret_lines = <<SixLineLog[5]>>

\* ---- C22: the backward-read loop of _efficient_tail terminates: while fewer
\* than N+1 lines are assembled and the start of the file is not reached, an
\* iteration reads a non-empty chunk that ends where the previous one began
\* (the bytes still unread, Len(file) - bytes_read_total, strictly decrease
\* and never go below zero), and otherwise the loop is left at once.
C22_LoopReadsBackwardAndStops ==
    [][pc = "tail_loop" =>
        IF Len(lines_found) < num_lines + 1 /\ bytes_read_total < Len(file)
        THEN /\ pc' = "tail_loop"
             /\ bytes_read_total' > bytes_read_total
             /\ bytes_read_total' <= Len(file)
             /\ bytes_read_total' - bytes_read_total <= buffer_size
        ELSE /\ pc' = "tail_returned"
             /\ bytes_read_total' = bytes_read_total]_vars

\* the loop ran at least twice and stopped before the start of the file,
\* with N+1 lines assembled
C22_Witness ==
    /\ pc = "tail_returned"
    /\ bytes_read_total >= 2 * buffer_size
    /\ bytes_read_total < Len(file)
    /\ Len(lines_found) >= num_lines + 1

\* the pieces of text of a line in which WARNING, ERROR or CRITICAL occurs,
\* in upper case
SeverityWordIn(c) ==
    c \in {"H_WARNING", "H_ERROR", "H_CRITICAL", "ERROR", "WKHTMLTOPDF: ERROR"}

NoSeverityWord(line) == \A i \in 1..Len(line) : ~SeverityWordIn(line[i])

MatchesARule(line) == \E k \in 1..NumPatterns : Search(k, line) # 0

\* ---- C23: diagnose_logs considers only the lines that contain WARNING,
\* ERROR or CRITICAL: going over a line without such a word adds no hint and
\* records no hint text, even when the line matches a diagnostic pattern.
C23_UnmarkedLineAddsNothing ==
    [][(/\ pc = "diag_loop" /\ line_idx <= Len(log_lines)
        /\ NoSeverityWord(log_lines[line_idx])) =>
            /\ hints' = hints
            /\ unique_hints' = unique_hints
            /\ line_idx' = line_idx + 1]_vars

\* a line without a severity word that matches a pattern was gone over, and
\* the hint of that pattern was not emitted
C23_Witness ==
    /\ pc = "diag_returned"
    /\ \E i \in 1..Len(log_lines) : \E k \in 1..NumPatterns :
          /\ NoSeverityWord(log_lines[i])
          /\ Search(k, log_lines[i]) # 0
          /\ \A j \in 1..Len(hints) : hints[j].text # HintText(k, log_lines[i])
    /\ \E j \in 1..Len(hints) : hints[j].kind = "rule"

\* the lines of the input that are considered and match pattern k with hint
\* text t
Triggers(t) ==
    {i \in 1..Len(log_lines) :
        /\ ~NoSeverityWord(log_lines[i])
        /\ \E k \in 1..NumPatterns :
              Search(k, log_lines[i]) # 0 /\ HintText(k, log_lines[i]) = t}

FirstTrigger(t) == CHOOSE i \in Triggers(t) : \A j \in Triggers(t) : i <= j

\* the first pattern that gives hint text t on a line
RuleOf(t, line) ==
    CHOOSE k \in 1..NumPatterns :
        /\ Search(k, line) # 0 /\ HintText(k, line) = t
        /\ \A m \in 1..(k - 1) : ~(Search(m, line) # 0 /\ HintText(m, line) = t)

\* the last 150 characters of a line, or the whole line when it is shorter
Last150(line) ==
    [i \in 1..Min(Len(line), 150) |-> line[Len(line) - Min(Len(line), 150) + i]]

\* ---- C24: every pattern is tested on every considered line, in declared
\* order and without stopping at the first match: each hint text that some
\* considered line gives is emitted; the hints are in the order of the first
\* line that gave them and then of the patterns; each carries the last 150
\* characters (or fewer, the whole line) of that first line.
C24_EveryRuleTestedInOrder ==
    pc = "diag_returned" =>
        LET found == {q \in (1..NumPatterns) \X (1..Len(log_lines)) :
                         /\ ~NoSeverityWord(log_lines[q[2]])
                         /\ Search(q[1], log_lines[q[2]]) # 0}
            texts == {HintText(q[1], log_lines[q[2]]) : q \in found}
        IN IF texts = {} THEN hints = <<FallbackHint>>
           ELSE /\ {hints[j].text : j \in 1..Len(hints)} = texts
                /\ \A j \in 1..Len(hints) :
                      /\ hints[j].kind = "rule"
                      /\ Len(hints[j].excerpt) <= 150
                      /\ hints[j].excerpt = Last150(log_lines[FirstTrigger(hints[j].text)])
                /\ \A j \in 1..(Len(hints) - 1) :
                      LET a == FirstTrigger(hints[j].text)
                          b == FirstTrigger(hints[j + 1].text)
                      IN \/ a < b
                         \/ /\ a = b
                            /\ RuleOf(hints[j].text, log_lines[a])
                                 < RuleOf(hints[j + 1].text, log_lines[a])

\* one line gave two hints, and a hint carries an excerpt cut to 150
\* characters of a longer line
C24_Witness ==
    /\ pc = "diag_returned"
    /\ \E j \in 1..(Len(hints) - 1) :
          /\ hints[j].kind = "rule"
          /\ FirstTrigger(hints[j].text) = FirstTrigger(hints[j + 1].text)
    /\ \E j \in 1..Len(hints) :
          /\ hints[j].kind = "rule"
          /\ Len(hints[j].excerpt) = 150
          /\ Len(log_lines[FirstTrigger(hints[j].text)]) > 150

\* ---- C25: a malformed requirement string never aborts the check:
\* _check_package_installed raises nothing and returns an outcome for it, the
\* one of the name extracted from the string, with no version constraint.
C25_MalformedSpecIsClassified ==
    (pc # "check_call" /\ ~spec_parts.wellformed) =>
        /\ pc = "check_returned"
        /\ LET dist == Distribution(NameOnly(package_spec))
           IN /\ check_result.is_installed = (dist \in InstalledVersions)
              /\ check_result.status_msg.required = {}
              /\ check_result.required.clauses = {}

GitOver == pc \in {"git_returned", "git_raised"}

\* ---- C26: with the base git directory configured, action_clone_or_pull
\* returns a pair (success, message); it clones when the target path does not
\* exist, fetches and resets when the target is a git work tree, runs neither
\* and returns failure when the target is something else, and leaves
\* last_git_status at 'success' exactly when it returns success.
C26_ClonesOrPulls ==
    (GitOver /\ base_git_dir /\ parent_dir = "exists") =>
        /\ pc = "git_returned"
        /\ "clone" \in {git_commands[i] : i \in 1..Len(git_commands)}
              \/ target_path = "absent" => git_commands = <<"clone">>
        /\ (target_path = "worktree" /\ git_commands[1] = "rev-parse") =>
              \/ git_commands = <<"rev-parse", "fetch", "reset">>
              \/ git_commands = <<"rev-parse", "fetch">> /\ ~git_return.success
        /\ target_path = "plain" =>
              git_commands = <<"rev-parse">> /\ ~git_return.success
        /\ (last_git_status = "success") <=> git_return.success

Elements(q) == {q[i] : i \in 1..Len(q)}

\* ---- C27: after install_packages returns, every spec of the input is in
\* exactly one of 'success' and the keys of 'failed': the two are disjoint
\* and together they are the specs of the input, also when a spec occurs in
\* the input more than once.
C27_BucketsPartitionInput ==
    \A w \in Sessions :
        ipc[w] = "returned" =>
            /\ Elements(success[w]) \cap FailedKeys(failed[w]) = {}
            /\ Elements(success[w]) \cup FailedKeys(failed[w])
                  = Elements(packages_specs[w])

\* the status each entry point derives from an analysis
StatusOfScan(inst, errs) ==
    IF errs # <<>> THEN "scanned_error"
    ELSE IF inst = <<>> THEN "scanned_ok" ELSE "scanned_issues"

StatusOfRunAllScans(inst, errs) ==
    IF inst # <<>> THEN "scanned_issues"
    ELSE IF errs # <<>> THEN "scanned_error" ELSE "scanned_ok"

\* ---- C28: for the same analysis, action_scan_addon_python_dependencies
\* and action_run_all_scans leave the same addon_req_status and the same
\* packages_to_install_list: what either leaves is what the other one
\* derives from that analysis.
C28_EntryPointsAgree ==
    [][pc = "analyze_returned" =>
        /\ pc' = "scan_done"
        /\ packages_to_install_list'[self] = Join(SpecsOf(to_install))
        /\ entry = "scan" =>
              addon_req_status'[self] = StatusOfRunAllScans(to_install, errors)
        /\ entry = "run_all" =>
              addon_req_status'[self] = StatusOfScan(to_install, errors)]_vars

\* ---- C29: when the install action of a wizard record returns: with an
\* empty packages_to_install_list on entry it has started no package manager
\* and has left addon_req_status as it was; otherwise the status is not
\* 'install_inprogress': it is 'install_done_ok' when no attempt of the run
\* failed, and then the list is empty, and 'install_done_errors' when some
\* attempt failed, and then the list is not empty.
C29_StatusAfterInstall ==
    [][\A w \in Sessions :
        /\ (ipc[w] \in {"ready", "done"} /\ packages_to_install_list[w] = <<>>) =>
              /\ addon_req_status'[w] = addon_req_status[w]
              /\ processes'[w] = processes[w]
              /\ ipc'[w] \in {ipc[w], "done"}
        /\ (ipc[w] \notin {"ready", "done"} /\ ipc'[w] = "done") =>
              /\ addon_req_status'[w] \in {"install_done_ok", "install_done_errors"}
              /\ addon_req_status'[w] = "install_done_ok" <=> FailedAttempts(w) = {}
              /\ addon_req_status'[w] = "install_done_ok" =>
                    packages_to_install_list'[w] = <<>>
              /\ addon_req_status'[w] = "install_done_errors" =>
                    packages_to_install_list'[w] # <<>>]_vars

\* a run of two specs returned with a failed and a successful attempt, and
\* the other record's action returned at once on its empty list
C29_Witness ==
    /\ ipc["w1"] = "done"
    /\ addon_req_status["w1"] = "install_done_errors"
    /\ packages_to_install_list["w1"] # <<>>
    /\ FailedAttempts("w1") # {}
    /\ \E i \in 1..Len(processes["w1"]) : IsSuccess(processes["w1"][i])
    /\ ipc["w2"] = "done"
    /\ processes["w2"] = <<>>
    /\ addon_req_status["w2"] # "install_done_ok"

\* ---- C30: action_load_and_analyze_logs with log_level_filter 'ALL' and no
\* keyword, on a configured, readable, non-empty log file, ends with
\* log_analysis_status 'success' and log_display_content the last
\* log_lines_to_fetch lines of the file (200 when the field is not
\* positive); the status is never 'not_run' when the action has returned.
C30_AllLevelsShowsTail ==
    pc = "wiz_log_done" =>
        /\ log_analysis_status # "not_run"
        /\ (/\ ReadableNonEmpty /\ log_level_filter = "ALL"
            /\ log_keyword_filter \in {NoneKeyword, <<>>}) =>
              /\ log_analysis_status = "success"
              /\ log_display_content =
                    NewlineJoin(LastMin(FileLines,
                        IF log_lines_to_fetch > 0 THEN log_lines_to_fetch ELSE 200))

====
